---- MODULE Spec2Model ----
(***************************************************************************)
(* Model of paper-animate's core: the TimelineController (time -> state,   *)
(* transport controls, publish/subscribe), the script repair step of       *)
(* analyzePaper and the keyframe interpolation engine.                     *)
(*                                                                         *)
(* Times are whole seconds, frame timestamps whole multiples of 1000 ms,   *)
(* ratios (progress values) are pairs <<numerator, denominator>>.          *)
(* Arrays are sequences: the code's index i is position i + 1 here, and    *)
(* every index the code returns (sectionIndex, segmentIndex, fromSection)  *)
(* keeps the code's 0-based value.                                         *)
(***************************************************************************)
EXTENDS Integers, Sequences, FiniteSets, TLC

VARIABLES
    \* ---- TimelineController fields (three-scene.ts 694-707)
    script,                 \* sectionScripts, transitions, totalDuration
    sectionStartTimes,
    transitionStartTimes,
    currentTime,
    speed,
    playing,
    rafId,
    lastTimestamp,
    listeners,
    \* ---- host frame scheduler
    pending,                \* handles of the frame callbacks requested and not yet run or cancelled
    now,                    \* timestamp (ms) of the latest frame
    \* ---- what an observer of the controller saw last
    lastNote,               \* the latest notification delivered by notify()
    \* ---- a direct call of the pure query getStateAtTime
    query,
    \* ---- analyzePaper's repair of one section: the section as the generator
    \* returned it and the section as the map callback returns it
    section,
    fixedSection,
    \* ---- one call of interpolateKeyframes: the track and the sampled frame
    keyframes,
    sample,
    \* ---- one call of easeProgress
    easeCall,
    \* ---- the subscribe() calls whose unsubscribe handle has not been called
    \* and that no destroy() has swept away: pairs <<handle, listener>>
    registrations,
    \* ---- the latest setSpeed() call: the host time (ms) it was made at and
    \* the multiplier it replaced
    speedCall,
    \* ---- the latest keyframesFromLegacyAnimation call: its arguments and the
    \* keyframes it returned
    legacyCall,
    \* ---- one withGeminiRetry call: its loop variables, where it stands, what
    \* it did so far
    retry

tlVars == <<script, sectionStartTimes, transitionStartTimes, currentTime, speed,
            playing, rafId, lastTimestamp, listeners, pending, now, lastNote>>

repairVars == <<section, fixedSection>>

keyVars == <<keyframes, sample, easeCall>>

\* What the controller's operations leave alone.
callVars == <<legacyCall, retry>>
pureVars == <<query, repairVars, keyVars, registrations, speedCall, callVars>>

vars == <<tlVars, pureVars>>

(***************************************************************************)
(* Bounds of the model                                                     *)
(***************************************************************************)
MaxSections == 2        \* sections of a script
MaxDuration == 2        \* seconds of one section
MaxTransition == 1      \* seconds of one transition
MaxSegments == 2        \* narration segments of one section
MaxClock == 4           \* seconds of host time in one behaviour
MaxFrameGap == 2        \* seconds between two frames
MaxListeners == 1       \* registrations

MsPerSecond == 1000

\* null in a number-or-null field (rafId, lastTimestamp): no handle and no timestamp is negative.
Null == 0 - 1

Max(a, b) == IF a >= b THEN a ELSE b
Min(a, b) == IF a <= b THEN a ELSE b

RECURSIVE SumSeq(_, _)
SumSeq(s, f) == IF s = <<>> THEN 0 ELSE s[1][f] + SumSeq(Tail(s), f)

SeqsUpTo(S, n) == UNION {[1..k -> S] : k \in 0..n}

(***************************************************************************)
(* PresentationScript values                                               *)
(***************************************************************************)
StepName(k) == "step-" \o ToString(k)
TextName(k) == "text-" \o ToString(k)

\* A NarrationSegment at position k of its section with the given offsets.
Segment(k, startTime, endTime) ==
    [startTime |-> startTime, endTime |-> endTime,
     stepId |-> StepName(k), text |-> TextName(k), emphasis |-> <<>>]

Offsets == {o \in (0..MaxDuration) \X (0..MaxDuration) : o[1] <= o[2]}

\* Every list of up to MaxSegments segments, offsets anywhere in the section's range.
AnyLayouts ==
    {[k \in 1..Len(os) |-> Segment(k, os[k][1], os[k][2])] : os \in SeqsUpTo(Offsets, MaxSegments)}

\* SectionScript invariant of the data model: ascending, contiguous, covering [0, d).
Covers(segs, d) ==
    /\ Len(segs) >= 1
    /\ segs[1].startTime = 0
    /\ segs[Len(segs)].endTime = d
    /\ \A k \in 1..Len(segs) : segs[k].startTime < segs[k].endTime
    /\ \A k \in 1..(Len(segs) - 1) : segs[k].endTime = segs[k + 1].startTime

AnySections ==
    {[totalDuration |-> d, segments |-> l] : d \in 0..MaxDuration, l \in AnyLayouts}

\* Sections as the Script Builder fills them: the invariant holds; a section of
\* no duration has no segment.
BuiltSections ==
    {s \in AnySections : IF s.totalDuration > 0 THEN Covers(s.segments, s.totalDuration)
                         ELSE s.segments = <<>>}

Transitions == {[duration |-> d] : d \in 0..MaxTransition}

\* Scripts as the Script Builder hands them over: one transition between two
\* neighbouring sections, totalDuration the sum of all durations.
ScriptsOver(S) ==
    {[sections |-> ss, transitions |-> ts,
      totalDuration |-> SumSeq(ss, "totalDuration") + SumSeq(ts, "duration")] :
        <<ss, ts>> \in {p \in SeqsUpTo(S, MaxSections) \X SeqsUpTo(Transitions, MaxSections) :
                          Len(p[2]) = Max(0, Len(p[1]) - 1)}}

(***************************************************************************)
(* TimelineController: construction and the time -> state query            *)
(***************************************************************************)
COMPLETE_STATE ==
    [phase |-> "complete", sectionIndex |-> 0, segmentIndex |-> 0,
     sectionProgress |-> <<1, 1>>, segmentProgress |-> <<1, 1>>,
     activeStepId |-> "", currentText |-> "", emphasis |-> <<>>, globalTime |-> 0]

\* The for loop of computeStartTimes from index i on (0-based), offset accumulated so far.
RECURSIVE StartTimesFrom(_, _, _, _, _)
StartTimesFrom(scr, i, offset, sst, tst) ==
    IF i >= Len(scr.sections) THEN [sections |-> sst, transitions |-> tst]
    ELSE LET afterSection == offset + scr.sections[i + 1].totalDuration IN
         IF i < Len(scr.transitions)
         THEN StartTimesFrom(scr, i + 1, afterSection + scr.transitions[i + 1].duration,
                             Append(sst, offset), Append(tst, afterSection))
         ELSE StartTimesFrom(scr, i + 1, afterSection, Append(sst, offset), tst)

\* computeStartTimes with the transition's duration left out of the offset.
RECURSIVE StartTimesNoTransition(_, _, _, _, _)
StartTimesNoTransition(scr, i, offset, sst, tst) ==
    IF i >= Len(scr.sections) THEN [sections |-> sst, transitions |-> tst]
    ELSE LET afterSection == offset + scr.sections[i + 1].totalDuration IN
         IF i < Len(scr.transitions)
         THEN StartTimesNoTransition(scr, i + 1, afterSection,
                                     Append(sst, offset), Append(tst, afterSection))
         ELSE StartTimesNoTransition(scr, i + 1, afterSection, Append(sst, offset), tst)

computeStartTimesNoTransition(scr) == StartTimesNoTransition(scr, 0, 0, <<>>, <<>>)

computeStartTimes(scr) == StartTimesFrom(scr, 0, 0, <<>>, <<>>)

\* The segment scan of getStateAtTime (lines 753-767) from position s on: the
\* first segment whose [startTime, endTime) holds sectionTime, the last segment
\* when none does; 0 when the list is empty (the loop body never runs).
\* The segment scan with the segment's end included in it.
RECURSIVE ScanSegmentsInclusive(_, _, _)
ScanSegmentsInclusive(segs, sectionTime, s) ==
    IF s > Len(segs) THEN 0
    ELSE IF sectionTime >= segs[s].startTime /\ sectionTime <= segs[s].endTime THEN s - 1
    ELSE IF s = Len(segs) THEN s - 1
    ELSE ScanSegmentsInclusive(segs, sectionTime, s + 1)

RECURSIVE ScanSegments(_, _, _)
ScanSegments(segs, sectionTime, s) ==
    IF s > Len(segs) THEN 0
    ELSE IF sectionTime >= segs[s].startTime /\ sectionTime < segs[s].endTime THEN s - 1
    ELSE IF s = Len(segs) THEN s - 1
    ELSE ScanSegments(segs, sectionTime, s + 1)

\* Reading a field of script.segments[0] of an empty list raises a TypeError.
TYPE_ERROR == [COMPLETE_STATE EXCEPT !.phase = "TypeError"]

Thrown(state) == state.phase = "TypeError"

SectionState(i, sec, sectionStart, clampedTime) ==
    LET sectionTime == clampedTime - sectionStart
        sectionProgress == IF sec.totalDuration > 0
                           THEN <<sectionTime, sec.totalDuration>> ELSE <<0, 1>>
        segmentIndex == ScanSegments(sec.segments, sectionTime, 1)
    IN  IF Len(sec.segments) = 0 THEN [TYPE_ERROR EXCEPT !.globalTime = clampedTime]
        ELSE LET activeSegment == sec.segments[segmentIndex + 1]
                 segmentDuration == activeSegment.endTime - activeSegment.startTime
                 elapsed == sectionTime - activeSegment.startTime
                 segmentProgress ==
                     IF segmentDuration > 0
                     THEN (IF elapsed >= segmentDuration THEN <<1, 1>>
                           ELSE <<elapsed, segmentDuration>>)
                     ELSE <<0, 1>>
             IN  [phase |-> "section", sectionIndex |-> i, segmentIndex |-> segmentIndex,
                  sectionProgress |-> sectionProgress, segmentProgress |-> segmentProgress,
                  activeStepId |-> activeSegment.stepId, currentText |-> activeSegment.text,
                  emphasis |-> activeSegment.emphasis, globalTime |-> clampedTime]

TransitionState(i, tr, transitionStart, clampedTime) ==
    [phase |-> "transition", sectionIndex |-> i, segmentIndex |-> 0,
     sectionProgress |-> <<1, 1>>, segmentProgress |-> <<1, 1>>,
     activeStepId |-> "", currentText |-> "", emphasis |-> <<>>,
     globalTime |-> clampedTime, fromSection |-> i, toSection |-> i + 1,
     transitionProgress |-> IF tr.duration > 0
                            THEN <<clampedTime - transitionStart, tr.duration>>
                            ELSE <<0, 1>>]

\* The partition scan of getStateAtTime (lines 740-817) from section i on (0-based).
RECURSIVE ScanPartitions(_, _)
ScanPartitions(i, clampedTime) ==
    IF i >= Len(script.sections) THEN [COMPLETE_STATE EXCEPT !.globalTime = clampedTime]
    ELSE LET sectionStart == sectionStartTimes[i + 1]
             sec == script.sections[i + 1]
             sectionEnd == sectionStart + sec.totalDuration
         IN  IF clampedTime >= sectionStart /\ clampedTime < sectionEnd
             THEN SectionState(i, sec, sectionStart, clampedTime)
             ELSE IF /\ i < Len(script.transitions)
                     /\ clampedTime >= transitionStartTimes[i + 1]
                     /\ clampedTime < transitionStartTimes[i + 1] + script.transitions[i + 1].duration
                  THEN TransitionState(i, script.transitions[i + 1],
                                       transitionStartTimes[i + 1], clampedTime)
                  ELSE ScanPartitions(i + 1, clampedTime)

\* The terminal state reporting the time asked for.
TerminalStateAtTime(time) ==
    [COMPLETE_STATE EXCEPT !.globalTime = time,
                           !.sectionIndex = Len(script.sections) - 1]

TerminalState(time) ==
    [COMPLETE_STATE EXCEPT !.globalTime = script.totalDuration,
                           !.sectionIndex = Len(script.sections) - 1]

getStateAtTime(time) ==
    IF time >= script.totalDuration THEN TerminalState(time)
    ELSE ScanPartitions(0, Max(0, time))

(***************************************************************************)
(* Initial states                                                          *)
(***************************************************************************)
\* A notification: what produced it ("seek" with the time asked for, "tick"),
\* the state handed over, the listeners it was handed to, isPlaying() as a
\* listener reads it during the call, and `live`: it was delivered while
\* playing and playback has gone on without a pause() or destroy() since.
NoNote == [kind |-> "none", arg |-> 0, state |-> COMPLETE_STATE, to |-> {},
           playing |-> FALSE, live |-> FALSE]
NoQuery == [time |-> 0, state |-> COMPLETE_STATE, asked |-> FALSE]

\* No section has been handed to analyzePaper's repair step, no track sampled.
NoScript == [sectionId |-> "", fullText |-> <<>>, segments |-> <<>>, totalDuration |-> 0]
NoSection == [id |-> "", title |-> <<>>, concept |-> <<>>, narration |-> <<>>,
              hasScript |-> FALSE, script |-> NoScript,
              hasAnimationData |-> FALSE, steps |-> <<>>]
NoSample == [progress |-> 0, frame |-> <<>>, asked |-> FALSE]
NoSpeedCall == [at |-> 0 - 1, from |-> 1]
NoLegacyCall == [enter |-> "", exit |-> "", x |-> <<>>, y |-> <<>>, index |-> 0,
                 keyframes |-> <<>>, asked |-> FALSE]
NoRetry == [phase |-> "idle", attempt |-> 0, delay |-> 0, calls |-> 0, waits |-> <<>>,
            error |-> <<>>, thrown |-> <<>>]
NoEase == [progress |-> <<0, 1>>, easing |-> "", value |-> <<0, 1>>, asked |-> FALSE]
Untouched ==
    /\ query = NoQuery
    /\ section = NoSection
    /\ fixedSection = NoSection
    /\ keyframes = <<>>
    /\ sample = NoSample
    /\ easeCall = NoEase
    /\ registrations = {}
    /\ speedCall = NoSpeedCall
    /\ legacyCall = NoLegacyCall
    /\ retry = NoRetry

\* new TimelineController(s)
Constructed(s) ==
    /\ script = s
    /\ sectionStartTimes = computeStartTimes(s).sections
    /\ transitionStartTimes = computeStartTimes(s).transitions
    /\ currentTime = 0
    /\ speed = 1
    /\ playing = FALSE
    /\ rafId = Null
    /\ lastTimestamp = Null
    /\ listeners = {}
    /\ pending = {}
    /\ now = 0
    /\ lastNote = NoNote

(***************************************************************************)
(* SpecState: getStateAtTime applied to every script and time              *)
(***************************************************************************)
QueryTimes == (0 - 1)..(MaxSections * MaxDuration + MaxSections * MaxTransition + 1)

InitState ==
    /\ \E s \in ScriptsOver(AnySections) : Constructed(s)
    /\ Untouched

GetStateAtTime(t) ==
    /\ query' = [time |-> t, state |-> getStateAtTime(t), asked |-> TRUE]
    /\ UNCHANGED <<tlVars, repairVars, keyVars, registrations, speedCall, callVars>>

NextState == \E t \in QueryTimes : GetStateAtTime(t)

SpecState == InitState /\ [][NextState]_vars

(***************************************************************************)
(* TimelineController: transport controls and the tick loop                *)
(***************************************************************************)
Speeds == {0 - 1, 0, 1, 2}
ListenerIds == 1..MaxListeners

\* requestAnimationFrame returns a handle no pending callback holds.  Handles
\* are compared only by cancelAnimationFrame(this.rafId), so the smallest such
\* handle other than this.rafId stands for the host's next handle.
FreshHandle == CHOOSE h \in 1..(Cardinality(pending) + 2) : h \notin pending /\ h # rafId

\* notify() at accumulated time t: the state is computed, then handed to every
\* listener; an error raised while computing it reaches no listener.
NotifyNote(kind, arg, t, isPlaying) ==
    IF Thrown(getStateAtTime(t)) THEN lastNote
    ELSE [kind |-> kind, arg |-> arg, state |-> getStateAtTime(t), to |-> listeners,
          playing |-> isPlaying, live |-> isPlaying]

\* play() that resumes from wherever the accumulated time stands.
PlayWithoutReset ==
    /\ IF playing
       THEN UNCHANGED <<currentTime, playing, lastTimestamp, rafId, pending>>
       ELSE /\ UNCHANGED currentTime
            /\ playing' = TRUE
            /\ lastTimestamp' = Null
            /\ rafId' = FreshHandle
            /\ pending' = pending \cup {FreshHandle}
    /\ UNCHANGED <<script, sectionStartTimes, transitionStartTimes, speed, listeners,
                   now, lastNote, pureVars>>

Play ==
    /\ IF playing
       THEN UNCHANGED <<currentTime, playing, lastTimestamp, rafId, pending>>
       ELSE /\ currentTime' = IF currentTime >= script.totalDuration THEN 0 ELSE currentTime
            /\ playing' = TRUE
            /\ lastTimestamp' = Null
            /\ rafId' = FreshHandle
            /\ pending' = pending \cup {FreshHandle}
    /\ UNCHANGED <<script, sectionStartTimes, transitionStartTimes, speed, listeners,
                   now, lastNote, pureVars>>

\* pause() that forgets the scheduled callback without cancelling it.
PauseFieldsNoCancel ==
    /\ playing' = FALSE
    /\ rafId' = Null
    /\ UNCHANGED pending
    /\ lastTimestamp' = Null

\* The field updates of pause(), shared with destroy().
PauseFields ==
    /\ playing' = FALSE
    /\ IF rafId # Null
       THEN pending' = pending \ {rafId} /\ rafId' = Null
       ELSE UNCHANGED <<pending, rafId>>
    /\ lastTimestamp' = Null

Pause ==
    /\ PauseFields
    /\ lastNote' = [lastNote EXCEPT !.live = FALSE]
    /\ UNCHANGED <<script, sectionStartTimes, transitionStartTimes, currentTime, speed,
                   listeners, now, pureVars>>

\* The field updates of seek(time), shared with seekToSection().
SeekFields(time) ==
    LET clamped == Max(0, Min(time, script.totalDuration)) IN
    /\ currentTime' = clamped
    /\ lastTimestamp' = Null
    /\ lastNote' = NotifyNote("seek", time, clamped, playing)

Seek(time) ==
    /\ SeekFields(time)
    /\ UNCHANGED <<script, sectionStartTimes, transitionStartTimes, speed, playing, rafId,
                   listeners, pending, now, pureVars>>

SeekToSection(sectionIndex) ==
    /\ IF sectionIndex >= 0 /\ sectionIndex < Len(sectionStartTimes)
       THEN SeekFields(sectionStartTimes[sectionIndex + 1])
       ELSE UNCHANGED <<currentTime, lastTimestamp, lastNote>>
    /\ UNCHANGED <<script, sectionStartTimes, transitionStartTimes, speed, playing, rafId,
                   listeners, pending, now, pureVars>>

SetSpeed(multiplier) ==
    /\ speed' = multiplier
    /\ UNCHANGED <<script, sectionStartTimes, transitionStartTimes, currentTime, playing,
                   rafId, lastTimestamp, listeners, pending, now, lastNote, pureVars>>

Subscribe(l) ==
    /\ listeners' = listeners \cup {l}
    /\ UNCHANGED <<script, sectionStartTimes, transitionStartTimes, currentTime, speed,
                   playing, rafId, lastTimestamp, pending, now, lastNote, pureVars>>

\* The handle subscribe(l) returned is called.
Unsubscribe(l) ==
    /\ l \in listeners
    /\ listeners' = listeners \ {l}
    /\ UNCHANGED <<script, sectionStartTimes, transitionStartTimes, currentTime, speed,
                   playing, rafId, lastTimestamp, pending, now, lastNote, pureVars>>

\* destroy() that pauses and leaves the listeners registered.
DestroyKeepsListeners ==
    /\ PauseFields
    /\ UNCHANGED listeners
    /\ lastNote' = [lastNote EXCEPT !.live = FALSE]
    /\ UNCHANGED <<script, sectionStartTimes, transitionStartTimes, currentTime, speed,
                   now, pureVars>>

Destroy ==
    /\ PauseFields
    /\ listeners' = {}
    /\ registrations' = {}
    /\ lastNote' = [lastNote EXCEPT !.live = FALSE]
    /\ UNCHANGED <<script, sectionStartTimes, transitionStartTimes, currentTime, speed,
                   now, query, repairVars, keyVars, speedCall, callVars>>

\* A tick that moves its baseline to `timestamp` before it takes the delta.
AdvancedFromNewBaseline(timestamp) ==
    LET last == timestamp
        delta == (timestamp - last) \div MsPerSecond
    IN  currentTime + delta * speed

\* A tick that measures its first delta from the latest frame.
AdvancedFromLatestFrame(timestamp) ==
    LET last == IF lastTimestamp = Null THEN now ELSE lastTimestamp
        delta == (timestamp - last) \div MsPerSecond
    IN  currentTime + delta * speed

\* The accumulated time a tick at `timestamp` computes (lines 821-827).
Advanced(timestamp) ==
    LET last == IF lastTimestamp = Null THEN timestamp ELSE lastTimestamp
        delta == (timestamp - last) \div MsPerSecond
    IN  currentTime + delta * speed

\* The host runs the frame callback h at a frame `gap` seconds after the latest.
Tick(h, gap) ==
    LET timestamp == now + gap * MsPerSecond
        advanced == Advanced(timestamp)
    IN  /\ h \in pending
        /\ timestamp <= MaxClock * MsPerSecond
        /\ now' = timestamp
        /\ lastTimestamp' = timestamp
        /\ IF advanced >= script.totalDuration
           THEN /\ currentTime' = script.totalDuration
                /\ playing' = FALSE
                /\ rafId' = Null
                /\ pending' = pending \ {h}
                /\ lastNote' = NotifyNote("tick", h, script.totalDuration, FALSE)
           ELSE /\ currentTime' = advanced
                /\ lastNote' = NotifyNote("tick", h, advanced, playing)
                /\ UNCHANGED playing
                /\ IF playing /\ ~Thrown(getStateAtTime(advanced))
                   THEN LET next == CHOOSE n \in 1..(Cardinality(pending) + 2) :
                                        n \notin (pending \ {h}) /\ n # rafId
                        IN  rafId' = next /\ pending' = (pending \ {h}) \cup {next}
                   ELSE rafId' = rafId /\ pending' = pending \ {h}
        /\ UNCHANGED <<script, sectionStartTimes, transitionStartTimes, speed, listeners, pureVars>>

Init ==
    /\ \E s \in ScriptsOver(BuiltSections) : Constructed(s)
    /\ Untouched

Next ==
    \/ Play
    \/ Pause
    \/ \E t \in (0 - 1)..(script.totalDuration + 1) : Seek(t)
    \/ \E k \in (0 - 1)..MaxSections : SeekToSection(k)
    \/ \E m \in Speeds : SetSpeed(m)
    \/ \E l \in ListenerIds : Subscribe(l)
    \/ \E l \in ListenerIds : Unsubscribe(l)
    \/ Destroy
    \/ \E h \in pending, gap \in 1..MaxFrameGap : Tick(h, gap)

Spec == Init /\ [][Next]_vars

(***************************************************************************)
(* Claims about the time -> state query (checked under SpecState)          *)
(***************************************************************************)
SectionSpansHolding(t) ==
    {i \in 1..Len(script.sections) :
        /\ t >= sectionStartTimes[i]
        /\ t < sectionStartTimes[i] + script.sections[i].totalDuration}

TransitionSpansHolding(t) ==
    {i \in 1..Len(transitionStartTimes) :
        /\ t >= transitionStartTimes[i]
        /\ t < transitionStartTimes[i] + script.transitions[i].duration}

\* PresentationScript invariant of the data model.
ScriptInvariant ==
    /\ Len(script.transitions) = Max(0, Len(script.sections) - 1)
    /\ script.totalDuration =
           SumSeq(script.sections, "totalDuration") + SumSeq(script.transitions, "duration")

\* Every section that lasts has a segment to report.
SegmentsPresent ==
    \A i \in 1..Len(script.sections) :
        script.sections[i].totalDuration > 0 => Len(script.sections[i].segments) > 0

\* C1: for a script with one transition between neighbouring sections and
\* totalDuration the sum of all durations, every t in [0, totalDuration) lies in
\* exactly one of the spans the constructor computed, and getStateAtTime(t)
\* reports that span: phase 'section' or 'transition', never 'complete'.
SpansTileTimeline ==
    (query.asked /\ ScriptInvariant /\ SegmentsPresent
        /\ 0 <= query.time /\ query.time < script.totalDuration) =>
    /\ Cardinality(SectionSpansHolding(query.time))
         + Cardinality(TransitionSpansHolding(query.time)) = 1
    /\ query.state.phase \in {"section", "transition"}
    /\ query.state.phase = "section" =>
           (query.state.sectionIndex + 1) \in SectionSpansHolding(query.time)
    /\ query.state.phase = "transition" =>
           (query.state.fromSection + 1) \in TransitionSpansHolding(query.time)

\* A time inside the transition between two sections that both last.
SpansTileTimelineWitness ==
    /\ query.asked
    /\ query.state.phase = "transition"
    /\ Len(script.sections) = 2
    /\ script.sections[1].totalDuration > 0
    /\ script.sections[2].totalDuration > 0
    /\ SegmentsPresent

\* C2: for every t >= totalDuration, getStateAtTime(t) is the terminal state:
\* phase 'complete' with globalTime equal to totalDuration, not to t.
TerminalPinnedAtTotal ==
    (query.asked /\ query.time >= script.totalDuration) =>
    /\ query.state.phase = "complete"
    /\ query.state.globalTime = script.totalDuration

TerminalPinnedAtTotalWitness ==
    /\ query.asked
    /\ script.totalDuration > 0
    /\ query.time > script.totalDuration
    /\ query.state.phase = "complete"

SegmentsHolding(segs, local) ==
    {k \in 1..Len(segs) : local >= segs[k].startTime /\ local < segs[k].endTime}

\* The section a 'section' state points at and the local time inside it.
QuerySection == script.sections[query.state.sectionIndex + 1]
QueryLocal == query.state.globalTime - sectionStartTimes[query.state.sectionIndex + 1]

\* C3: in a section whose segments are ascending, contiguous and cover
\* [0, totalDuration), every local time maps to the one segment whose
\* [startTime, endTime) holds it; a local time no segment holds maps to the
\* last segment.
SegmentContainment ==
    (query.asked /\ query.state.phase = "section") =>
    /\ Covers(QuerySection.segments, QuerySection.totalDuration) =>
           SegmentsHolding(QuerySection.segments, QueryLocal) = {query.state.segmentIndex + 1}
    /\ SegmentsHolding(QuerySection.segments, QueryLocal) = {} =>
           query.state.segmentIndex = Len(QuerySection.segments) - 1

\* The start of the second segment of a covered section: the boundary between two segments.
SegmentContainmentWitness ==
    /\ query.asked
    /\ query.state.phase = "section"
    /\ Covers(QuerySection.segments, QuerySection.totalDuration)
    /\ query.state.segmentIndex = 1
    /\ QueryLocal = QuerySection.segments[1].endTime

(***************************************************************************)
(* Claims about the transport controls (checked under Spec)                *)
(***************************************************************************)
\* C4: for every script (one without sections included) and every time t
\* (t < 0 and t > totalDuration included), the state seek(t) hands to the
\* subscribers equals getStateAtTime(t).
SeekDeliversStateAtTime ==
    (lastNote.kind = "seek" /\ lastNote.to # {}) =>
        lastNote.state = getStateAtTime(lastNote.arg)

AnyTick == \E h \in pending, gap \in 1..MaxFrameGap : Tick(h, gap)

\* C5: while the timeline is playing, a subscriber sees a tick's globalTime at
\* or after the globalTime of the notification before it in the same run of
\* playback; only a seek() notification may carry an earlier time.
TickTimeNonDecreasing ==
    [][(AnyTick /\ lastNote.live /\ lastNote.to \cap lastNote'.to # {}) =>
            lastNote'.state.globalTime >= lastNote.state.globalTime]_vars

AnySeek ==
    \/ \E t \in (0 - 1)..(script.totalDuration + 1) : Seek(t)
    \/ \E k \in (0 - 1)..MaxSections : SeekToSection(k)

\* Nothing is left of the controller's activity: what destroy() leaves behind.
Destroyed ==
    /\ ~playing
    /\ rafId = Null
    /\ lastTimestamp = Null
    /\ pending = {}
    /\ listeners = {}

QueryNeverThrows == query.asked => ~Thrown(query.state)

\* The section a 'section' state of the latest query lies in, and the local
\* time of the query in it.
QueriedSection == script.sections[query.state.sectionIndex + 1]
QueriedLocalTime == query.state.globalTime - sectionStartTimes[query.state.sectionIndex + 1]
InSection == query.asked /\ query.state.phase = "section"

\* The query fell in a section built as the data model requires, on the
\* boundary between its segments i and i + 1 (counted from 1).
OnBoundary(i) ==
    /\ InSection
    /\ Covers(QueriedSection.segments, QueriedSection.totalDuration)
    /\ i + 1 <= Len(QueriedSection.segments)
    /\ QueriedSection.segments[i].endTime = QueriedLocalTime
    /\ QueriedSection.segments[i + 1].startTime = QueriedLocalTime

\* C23 as stated: at an exact segment boundary getStateAtTime resolves to
\* the earlier of the two segments.
BoundaryResolvesEarlier ==
    \A i \in 1..MaxSegments : OnBoundary(i) => query.state.segmentIndex = i - 1

\* C23 amended: at an exact segment boundary getStateAtTime resolves to the
\* later of the two segments, taken at its very start (segmentProgress 0);
\* the scan's [startTime, endTime) test leaves the boundary out of the earlier one.
BoundaryResolvesLater ==
    \A i \in 1..MaxSegments :
        OnBoundary(i) =>
            /\ query.state.segmentIndex = i
            /\ query.state.segmentProgress[1] = 0
            /\ query.state.activeStepId = QueriedSection.segments[i + 1].stepId

\* C23 witness: the second section of a script, asked for at the boundary of
\* its two segments, answered with the second segment.
BoundaryResolvesLaterWitness ==
    /\ OnBoundary(1)
    /\ query.state.sectionIndex = 1
    /\ QueriedLocalTime = 1
    /\ query.state.segmentIndex = 1
    /\ query.state.sectionProgress = <<1, 2>>

\* C24: every 'section' state getStateAtTime returns has segmentProgress
\* within [0, 1], for every time and every segment layout of the section,
\* a layout in which the time matches no segment and the last one is taken
\* included.
SegmentProgressInUnitRange ==
    InSection =>
        /\ query.state.segmentProgress[1] >= 0
        /\ query.state.segmentProgress[1] <= query.state.segmentProgress[2]

\* C29: after any sequence of play, pause, seek, seekToSection, setSpeed with
\* any multiplier (zero and negative ones included) and ticks, the
\* accumulated time getCurrentTime() returns is within [0, totalDuration].
CurrentTimeWithinTimeline ==
    /\ currentTime >= 0
    /\ currentTime <= script.totalDuration

\* C18: play() on a timeline that is not playing resets the accumulated time
\* to 0 first when it is at or past totalDuration, and in every case marks
\* the timeline playing, clears the delta baseline and schedules the next
\* tick; playback after completion so restarts from the beginning.
PlayRestartsAtEnd ==
    [][(Play /\ ~playing) =>
        /\ currentTime' = IF currentTime >= script.totalDuration THEN 0 ELSE currentTime
        /\ playing'
        /\ lastTimestamp' = Null
        /\ rafId' # Null
        /\ rafId' \notin pending
        /\ pending' = pending \cup {rafId'}]_vars

\* C18 witness: playing again from 0 with a tick scheduled and no baseline,
\* the latest notification still the one that announced the end.
PlayRestartsAtEndWitness ==
    /\ playing
    /\ currentTime = 0
    /\ script.totalDuration > 0
    /\ lastTimestamp = Null
    /\ pending = {rafId}
    /\ lastNote.kind = "tick"
    /\ lastNote.state.phase = "complete"

\* C19: the first tick after a (re)start contributes no delta: the first tick
\* to fire after play(), and the first to fire after a seek(), finds no
\* baseline and leaves currentTime unchanged, however long it took to come.
FirstTickAddsNothing ==
    [][(AnyTick /\ lastTimestamp = Null) =>
        (currentTime' = currentTime /\ lastTimestamp' = now')]_vars

\* C19 witness: still playing at the time seek() set, after a tick that came
\* the longest gap later at double speed.
FirstTickAddsNothingWitness ==
    /\ playing
    /\ speed = 2
    /\ now = MaxFrameGap * MsPerSecond
    /\ lastTimestamp = now
    /\ lastNote.kind = "tick"
    /\ lastNote.state.globalTime = currentTime
    /\ currentTime = 1

(***************************************************************************)
(* Text.  A string is a sequence of tokens: a word, one blank (" ") or one *)
(* full stop (".").  The operators below do to tokens what the code's      *)
(* string methods and regular expressions do to characters.                *)
(***************************************************************************)
Blank == " "
Stop == "."

\* \s
IsBlank(t) == t = Blank
\* [.!?]
IsTerminal(t) == t = Stop

\* String.prototype.length of one token
CharLen(t) ==
    CASE t \in {"alpha", "Alpha", "gamma", "Gamma"} -> 5
      [] t \in {"beta", "Beta", "Step", "show", "this"} -> 4
      [] t \in {"We", "to", "it", "of"} -> 2
      [] t \in {"and", "how", "the"} -> 3
      [] t \in {"deepens", "concept"} -> 7
      [] t = "spotlight" -> 9
      [] t = "connects" -> 8
      [] t = "understanding" -> 13
      [] OTHER -> 1

\* charAt(0).toUpperCase() + slice(1) of one token
Capitalize(t) ==
    CASE t = "alpha" -> "Alpha"
      [] t = "beta" -> "Beta"
      [] t = "gamma" -> "Gamma"
      [] t = "this" -> "This"
      [] OTHER -> t

\* toLowerCase() of one token
LowerToken(t) ==
    CASE t = "Alpha" -> "alpha"
      [] t = "Beta" -> "beta"
      [] t = "Gamma" -> "gamma"
      [] t = "We" -> "we"
      [] t = "Step" -> "step"
      [] t = "This" -> "this"
      [] OTHER -> t

toLowerCase(text) == [i \in 1..Len(text) |-> LowerToken(text[i])]

RECURSIVE trimStart(_)
trimStart(text) ==
    IF text # <<>> /\ IsBlank(Head(text)) THEN trimStart(Tail(text)) ELSE text

RECURSIVE trimEnd(_)
trimEnd(text) ==
    IF text # <<>> /\ IsBlank(text[Len(text)])
    THEN trimEnd(SubSeq(text, 1, Len(text) - 1))
    ELSE text

trim(text) == trimEnd(trimStart(text))

\* replace(/\s+/g, ' ')
RECURSIVE collapse(_)
collapse(text) ==
    IF Len(text) <= 1 THEN text
    ELSE IF IsBlank(text[1]) /\ IsBlank(text[2]) THEN collapse(Tail(text))
    ELSE <<text[1]>> \o collapse(Tail(text))

\* Position of the first blank of a text, Len + 1 if it has none.
FirstBlank(text) ==
    IF \E i \in 1..Len(text) : IsBlank(text[i])
    THEN CHOOSE i \in 1..Len(text) :
            IsBlank(text[i]) /\ \A j \in 1..(i - 1) : ~IsBlank(text[j])
    ELSE Len(text) + 1

\* split(/\s+/).filter(Boolean)
RECURSIVE words(_)
words(text) ==
    LET rest == trimStart(text) IN
    IF rest = <<>> THEN <<>>
    ELSE <<SubSeq(rest, 1, FirstBlank(rest) - 1)>>
            \o words(SubSeq(rest, FirstBlank(rest), Len(rest)))

\* join(' ')
RECURSIVE join(_)
join(texts) ==
    IF texts = <<>> THEN <<>>
    ELSE IF Len(texts) = 1 THEN texts[1]
    ELSE texts[1] \o <<Blank>> \o join(Tail(texts))

\* filter(Boolean) on a list of strings
NonEmpty(texts) == SelectSeq(texts, LAMBDA t : t # <<>>)

\* split(/(?<=[.!?])\s+/): cut at every run of blanks that follows a full stop
RECURSIVE SplitAfterStops(_, _)
SplitAfterStops(rest, piece) ==
    IF rest = <<>> THEN <<piece>>
    ELSE IF IsBlank(rest[1]) /\ piece # <<>> /\ IsTerminal(piece[Len(piece)])
    THEN <<piece>> \o SplitAfterStops(trimStart(rest), <<>>)
    ELSE SplitAfterStops(Tail(rest), Append(piece, rest[1]))

splitIntoSentences(text) ==
    IF text = <<>> THEN <<>>
    ELSE LET pieces == SplitAfterStops(text, <<>>) IN
         NonEmpty([i \in 1..Len(pieces) |-> trim(collapse(pieces[i]))])

ensureSentence(text) ==
    LET trimmed == trim(collapse(text))
        capitalized == <<Capitalize(trimmed[1])>> \o Tail(trimmed)
    IN  IF trimmed = <<>> THEN <<>>
        ELSE IF IsTerminal(capitalized[Len(capitalized)]) THEN capitalized
        ELSE Append(capitalized, Stop)

(***************************************************************************)
(* analyzePaper: the repair of one section's script                        *)
(* Durations of this part are in tenths of a second (2.5 s is 25).         *)
(***************************************************************************)
\* An optional property is <<>> when absent and <<value>> when present.
Absent == <<>>
Given(v) == <<v>>

Element(type, content, label) ==
    [type |-> type, props |-> [content |-> content, label |-> label]]

Step(id, description, duration, elements) ==
    [id |-> id, description |-> description, duration |-> duration, elements |-> elements]

NarrationSegment(id, text, stepId, estimatedDuration, emphasis) ==
    [id |-> id, text |-> text, stepId |-> stepId, estimatedDuration |-> estimatedDuration,
     startTime |-> 0, endTime |-> 0, emphasis |-> emphasis, pacing |-> "normal"]

focusTypes == {"highlight", "shape", "node", "text"}

\* Array.from(new Set(list)): first occurrences, in order
RECURSIVE Distinct(_)
Distinct(list) ==
    IF list = <<>> THEN <<>>
    ELSE LET front == Distinct(SubSeq(list, 1, Len(list) - 1))
             last == list[Len(list)]
         IN  IF \E i \in 1..Len(front) : front[i] = last THEN front ELSE Append(front, last)

\* slice(0, n)
Slice(list, n) == SubSeq(list, 1, Min(n, Len(list)))

\* The phrase one element contributes: <<>> or <<phrase>>
ElementPhrase(element) ==
    LET rawContent == IF element.props.content # Absent
                      THEN element.props.content ELSE element.props.label
        cleaned == trim(collapse(rawContent[1]))
    IN  IF element.type \notin focusTypes THEN <<>>
        ELSE IF rawContent = Absent THEN <<>>
        ELSE IF Len(cleaned) > 0 THEN <<cleaned>>
        ELSE <<>>

RECURSIVE Phrases(_)
Phrases(elements) ==
    IF elements = <<>> THEN <<>>
    ELSE ElementPhrase(Head(elements)) \o Phrases(Tail(elements))

extractStepHighlights(step) ==
    IF step.elements = <<>> THEN <<>>
    ELSE Slice(Distinct(Phrases(step.elements)), 3)

ThisConcept == <<"this", Blank, "concept">>

buildSegmentNarration(step, fallbackSentence, sectionConcept, sectionTitle, stepIndex) ==
    LET highlights == extractStepHighlights(step)
        focusSubject == IF sectionConcept # <<>> THEN sectionConcept
                        ELSE IF sectionTitle # <<>> THEN sectionTitle
                        ELSE ThisConcept
        joined == IF Len(highlights) = 1 THEN highlights[1]
                  ELSE highlights[1] \o <<Blank, "and", Blank>> \o highlights[2]
    IN  IF fallbackSentence # <<>> THEN ensureSentence(fallbackSentence)
        ELSE IF Len(highlights) > 0
        THEN ensureSentence(<<"We", Blank, "spotlight", Blank>> \o joined
                \o <<Blank, "to", Blank, "show", Blank, "how", Blank, "it", Blank,
                     "connects", Blank, "to", Blank>> \o focusSubject \o <<Stop>>)
        ELSE IF Len(trim(step.description)) > 0 THEN ensureSentence(step.description)
        ELSE ensureSentence(<<"Step", Blank, ToString(stepIndex + 1), Blank, "deepens", Blank,
                "the", Blank, "understanding", Blank, "of", Blank>> \o focusSubject \o <<Stop>>)

\* word.replace(/[^a-zA-Z0-9-]/g, '')
Cleaned(word) == SelectSeq(word, LAMBDA t : ~IsTerminal(t) /\ ~IsBlank(t))

RECURSIVE WordLength(_)
WordLength(word) == IF word = <<>> THEN 0 ELSE CharLen(Head(word)) + WordLength(Tail(word))

\* text.split(/\s+/).map(clean).filter(word => word.length > n)
LongWords(text, n) ==
    LET ws == words(text) IN
    SelectSeq([i \in 1..Len(ws) |-> Cleaned(ws[i])], LAMBDA w : WordLength(w) > n)

RECURSIVE LongWordsOfAll(_, _)
LongWordsOfAll(phrases, n) ==
    IF phrases = <<>> THEN <<>>
    ELSE LongWords(Head(phrases), n) \o LongWordsOfAll(Tail(phrases), n)

\* The two loops of buildEmphasis: push every word not yet present (compared
\* in lower case) until two are held.
RECURSIVE PushUntilTwo(_, _)
PushUntilTwo(emphasis, ws) ==
    IF ws = <<>> \/ Len(emphasis) >= 2 THEN emphasis
    ELSE LET normalized == toLowerCase(Head(ws)) IN
         IF normalized # <<>>
            /\ ~\E i \in 1..Len(emphasis) : toLowerCase(emphasis[i]) = normalized
         THEN PushUntilTwo(Append(emphasis, Head(ws)), Tail(ws))
         ELSE PushUntilTwo(emphasis, Tail(ws))

buildEmphasis(step, segmentText) ==
    LET highlightWords == LongWordsOfAll(extractStepHighlights(step), 3)
        fallbackWords == LongWords(segmentText, 4)
    IN  Slice(PushUntilTwo(PushUntilTwo(<<>>, highlightWords), fallbackWords), 2)

\* Math.max(2.5, (wordCount / 150) * 60), in tenths of a second
estimatedFromWords(wordCount) == Max(25, 4 * wordCount)

\* The segment alignSegmentsToSteps builds for steps[index]
AlignedSegment(step, index, sentences, sectionId, sectionTitle, sectionConcept) ==
    LET fallbackSentence == IF index + 1 <= Len(sentences) THEN sentences[index + 1] ELSE <<>>
        text == buildSegmentNarration(step, fallbackSentence, sectionConcept, sectionTitle, index)
        wordCount == Len(words(text))
    IN  NarrationSegment(
            "seg-" \o sectionId \o "-" \o ToString(index + 1),
            text,
            IF step.id # "" THEN step.id ELSE sectionId \o "-step-" \o ToString(index + 1),
            IF step.duration # 0 THEN step.duration ELSE estimatedFromWords(wordCount),
            buildEmphasis(step, text))

SegmentTexts(segments) == [i \in 1..Len(segments) |-> segments[i].text]

\* A mutation: one segment per narration sentence instead of one per step.
alignSegmentsToSentences(scr, steps, narration, sectionId, sectionTitle, sectionConcept) ==
    LET sentences == splitIntoSentences(narration)
        segments == [i \in 1..Min(Len(steps), Len(sentences)) |->
                        AlignedSegment(steps[i], i - 1, sentences, sectionId,
                                       sectionTitle, sectionConcept)]
    IN  IF steps = <<>>
        THEN [sectionId |-> sectionId, fullText |-> narration,
              segments |-> scr.segments, totalDuration |-> 0]
        ELSE [sectionId |-> sectionId, fullText |-> join(SegmentTexts(segments)),
              segments |-> segments, totalDuration |-> 0]

alignSegmentsToSteps(scr, steps, narration, sectionId, sectionTitle, sectionConcept) ==
    LET sentences == splitIntoSentences(narration)
        segments == [i \in 1..Len(steps) |->
                        AlignedSegment(steps[i], i - 1, sentences, sectionId,
                                       sectionTitle, sectionConcept)]
    IN  IF steps = <<>>
        THEN [sectionId |-> sectionId, fullText |-> narration,
              segments |-> scr.segments, totalDuration |-> 0]
        ELSE [sectionId |-> sectionId, fullText |-> join(SegmentTexts(segments)),
              segments |-> segments, totalDuration |-> 0]

\* new Set(segments.map(seg => (seg.text || '').trim().toLowerCase()).filter(Boolean))
uniqueTexts(segments) ==
    {toLowerCase(trim(segments[i].text)) : i \in 1..Len(segments)} \ {<<>>}

\* A validity check that looks at the counts only (not what the code does).
shouldRegenerateOnCount(segments, steps) ==
    \/ Len(segments) # Len(steps)
    \/ Len(segments) = 0

shouldRegenerate(segments, steps) ==
    \/ Len(segments) # Len(steps)
    \/ Len(segments) = 0
    \/ Cardinality(uniqueTexts(segments)) <= 1

\* The else branch of the validation (part_002 380-397): counts match and the
\* texts are judged distinct; step ids and durations are synced in place.
ResyncedSegment(segment, step) ==
    LET textWordCount == IF segment.text # <<>> THEN Len(words(segment.text)) ELSE 0
        estimatedFromText == IF textWordCount > 0 THEN estimatedFromWords(textWordCount) ELSE 40
    IN  [segment EXCEPT
            !.stepId = step.id,
            !.estimatedDuration = IF step.duration # 0 THEN step.duration
                                  ELSE IF segment.estimatedDuration # 0
                                  THEN segment.estimatedDuration
                                  ELSE estimatedFromText]

Resynced(scr, steps) ==
    LET segments == [i \in 1..Len(scr.segments) |-> ResyncedSegment(scr.segments[i], steps[i])]
    IN  [scr EXCEPT !.segments = segments,
                    !.fullText = join(SegmentTexts(segments)),
                    !.totalDuration = 0]

\* The callback of analysis.sections.map (part_002 349-405)
FixedSection(sec, index) ==
    LET id == IF sec.id # "" THEN sec.id ELSE "section-" \o ToString(index + 1)
        narration == IF sec.hasScript /\ sec.narration = <<>>
                     THEN sec.script.fullText ELSE sec.narration
        validated ==
            IF sec.hasScript /\ sec.hasAnimationData
            THEN IF shouldRegenerate(sec.script.segments, sec.steps)
                 THEN alignSegmentsToSteps(sec.script, sec.steps, narration, id,
                                           sec.title, sec.concept)
                 ELSE Resynced(sec.script, sec.steps)
            ELSE sec.script
    IN  [sec EXCEPT
            !.id = id,
            !.script = IF sec.hasScript THEN [validated EXCEPT !.sectionId = id] ELSE validated,
            !.narration = IF sec.hasScript /\ validated.fullText # <<>>
                          THEN validated.fullText ELSE narration]

(***************************************************************************)
(* SpecRepair: the repair applied to every raw section of the bounds       *)
(***************************************************************************)
MaxSteps == 3           \* animation steps of one section
MaxRawSegments == 3     \* segments the generator returned for one section

Alpha == <<"alpha">>
BetaGamma == <<"beta", Blank, "gamma">>

\* Steps as a generator may return them: with and without an id, an authored
\* duration, a description, focus elements.
RawSteps ==
    { Step("step-a", <<>>, 30, <<>>),
      Step("", BetaGamma, 0, <<Element("arrow", Given(Alpha), Absent)>>),
      Step("step-c", <<>>, 0, <<Element("highlight", Given(Alpha), Absent)>>),
      Step("step-d", Alpha, 30, <<Element("node", Absent, Given(<<"gamma">>)),
                                  Element("text", Given(<<Blank, "alpha">>), Absent),
                                  Element("shape", Given(<<Blank>>), Given(Alpha))>>) }

\* Segments as a generator may return them: empty, repeated up to case, distinct.
RawSegments ==
    { NarrationSegment("seg-1", <<>>, "", 0, <<>>),
      NarrationSegment("seg-2", Alpha, "step-a", 50, <<>>),
      NarrationSegment("seg-3", <<"Alpha", Blank>>, "other", 0, <<>>),
      NarrationSegment("seg-4", BetaGamma, "step-c", 0, <<Alpha>>) }

TwoSentences == <<"alpha", Stop, Blank, Blank, "beta">>

\* What else the generator returned for the section: id, concept, title,
\* narration and script.fullText.
RawProfiles ==
    { [id |-> "", concept |-> <<>>, title |-> <<>>, narration |-> <<>>, fullText |-> <<>>],
      [id |-> "intro", concept |-> <<>>, title |-> <<"beta">>, narration |-> <<>>,
       fullText |-> <<"gamma", Stop>>],
      [id |-> "intro", concept |-> Alpha, title |-> <<"beta">>, narration |-> TwoSentences,
       fullText |-> <<"gamma", Stop>>],
      [id |-> "", concept |-> Alpha, title |-> <<>>, narration |-> TwoSentences,
       fullText |-> <<>>] }

RawSection(profile, hasScript, segments, hasAnimationData, steps) ==
    [id |-> profile.id, title |-> profile.title, concept |-> profile.concept,
     narration |-> profile.narration,
     hasScript |-> hasScript,
     script |-> IF hasScript
                THEN [sectionId |-> "", fullText |-> profile.fullText,
                      segments |-> segments, totalDuration |-> 7]
                ELSE NoScript,
     hasAnimationData |-> hasAnimationData, steps |-> steps]

RawSections ==
    { RawSection(profile, TRUE, segments, TRUE, steps) :
        profile \in RawProfiles,
        segments \in SeqsUpTo(RawSegments, MaxRawSegments),
        steps \in SeqsUpTo(RawSteps, MaxSteps) }
    \cup
    { RawSection(profile, TRUE, segments, FALSE, <<>>) :
        profile \in RawProfiles, segments \in SeqsUpTo(RawSegments, 1) }
    \cup
    { RawSection(profile, FALSE, <<>>, TRUE, steps) :
        profile \in RawProfiles, steps \in SeqsUpTo(RawSteps, 1) }

\* No controller is in use while a paper is analysed.
NoTimeline == Constructed([sections |-> <<>>, transitions |-> <<>>, totalDuration |-> 0])

InitRepair ==
    /\ NoTimeline
    /\ query = NoQuery
    /\ section \in RawSections
    /\ fixedSection = NoSection
    /\ keyframes = <<>>
    /\ sample = NoSample
    /\ easeCall = NoEase
    /\ registrations = {}
    /\ speedCall = NoSpeedCall
    /\ legacyCall = NoLegacyCall
    /\ retry = NoRetry

\* analysis.sections.map((section, index) => ...) reaches this section.
\* `section` keeps the value the generator returned.
AnalyzeSection(index) ==
    /\ fixedSection' = FixedSection(section, index)
    /\ UNCHANGED <<tlVars, query, section, keyVars, registrations, speedCall, callVars>>

NextRepair == \E index \in 0..(MaxSections - 1) : AnalyzeSection(index)

SpecRepair == InitRepair /\ [][NextRepair]_vars

(***************************************************************************)
(* Claims about the repair step (checked under SpecRepair)                 *)
(***************************************************************************)
Repaired == fixedSection.id # ""
RepairedWithSteps ==
    Repaired /\ section.hasScript /\ section.hasAnimationData /\ Len(section.steps) >= 1
Regenerated == RepairedWithSteps /\ shouldRegenerate(section.script.segments, section.steps)
ResyncedOnly == RepairedWithSteps /\ ~shouldRegenerate(section.script.segments, section.steps)

\* C7: after the repair of a section that has a script and at least one
\* animation step, the segment list has exactly steps.length segments,
\* whether the generator returned fewer, more or as many segments as steps.
RepairMatchesStepCount ==
    RepairedWithSteps => Len(fixedSection.script.segments) = Len(section.steps)

\* C7 witness: three steps and one raw segment came in, three segments came out.
RepairMatchesStepCountWitness ==
    /\ RepairedWithSteps
    /\ Len(section.steps) = 3
    /\ Len(section.script.segments) = 1
    /\ Len(splitIntoSentences(section.narration)) = 2
    /\ Len(fixedSection.script.segments) = 3

\* C8: after the repair of a section with at least one step, every segment
\* of the output has non-empty text, both when the segments were regenerated
\* and when the input was judged valid and only re-synced.
RepairedTextsNonEmpty ==
    RepairedWithSteps =>
        \A i \in 1..Len(fixedSection.script.segments) :
            fixedSection.script.segments[i].text # <<>>

\* C9: after the repair of a section with at least one step, segment i is
\* tied to step i for every i: its stepId equals steps[i].id, on the
\* regenerate path and on the re-sync path alike.
SegmentStepIdsMatch ==
    RepairedWithSteps =>
        \A i \in 1..Len(fixedSection.script.segments) :
            /\ i <= Len(section.steps)
            /\ fixedSection.script.segments[i].stepId = section.steps[i].id

\* C15: when the repair regenerates the segments of a section with two or
\* more steps, the texts of the output segments are mutually distinct, the
\* ones synthesized for steps without a narration sentence included.
RegeneratedTextsDistinct ==
    (Regenerated /\ Len(section.steps) >= 2) =>
        \A i, j \in 1..Len(fixedSection.script.segments) :
            i # j => fixedSection.script.segments[i].text # fixedSection.script.segments[j].text

\* The input the validity check is described to accept.
ValidInput ==
    /\ Len(section.script.segments) = Len(section.steps)
    /\ Cardinality(uniqueTexts(section.script.segments)) > 1

\* The output segments are the input's, as far as id and text go.
SegmentsKept ==
    /\ Len(fixedSection.script.segments) = Len(section.script.segments)
    /\ \A i \in 1..Len(section.script.segments) :
          /\ fixedSection.script.segments[i].id = section.script.segments[i].id
          /\ fixedSection.script.segments[i].text = section.script.segments[i].text

\* The output segments are new ones, one per step, numbered under the section id.
SegmentsRegenerated ==
    /\ Len(fixedSection.script.segments) = Len(section.steps)
    /\ \A i \in 1..Len(section.steps) :
          fixedSection.script.segments[i].id
              = "seg-" \o fixedSection.id \o "-" \o ToString(i)

ResyncRecomputesDuration ==
    ResyncedOnly =>
        \A i \in 1..Len(fixedSection.script.segments) :
            fixedSection.script.segments[i].estimatedDuration
                = IF section.steps[i].duration # 0
                  THEN section.steps[i].duration
                  ELSE Max(25, 4 * Len(words(section.script.segments[i].text)))

(***************************************************************************)
(* Keyframe interpolation.  A number the engine computes is a fraction     *)
(* <<numerator, denominator>> in lowest terms with a positive denominator. *)
(***************************************************************************)
Abs(n) == IF n < 0 THEN 0 - n ELSE n

RECURSIVE GCD(_, _)
GCD(a, b) == IF b = 0 THEN a ELSE GCD(b, a % b)

Frac(n, d) ==
    LET sn == IF d < 0 THEN 0 - n ELSE n
        sd == Abs(d)
        g == GCD(Abs(sn), sd)
    IN  <<sn \div g, sd \div g>>

Whole(n) == <<n, 1>>
Plus(a, b) == Frac(a[1] * b[2] + b[1] * a[2], a[2] * b[2])
Minus(a, b) == Frac(a[1] * b[2] - b[1] * a[2], a[2] * b[2])
Times(a, b) == Frac(a[1] * b[1], a[2] * b[2])
Over(a, b) == Frac(a[1] * b[2], a[2] * b[1])
Less(a, b) == a[1] * b[2] < b[1] * a[2]
AtMost(a, b) == a[1] * b[2] <= b[1] * a[2]

\* Math.max(0, Math.min(1, v))
Clamp01(v) == IF Less(v, Whole(0)) THEN Whole(0) ELSE IF Less(Whole(1), v) THEN Whole(1) ELSE v

\* easingAliases[easing] || easing
easingAliases(easing) ==
    CASE easing = "linear" -> "none"
      [] easing = "easeIn" -> "power1.in"
      [] easing = "easeOut" -> "power1.out"
      [] easing = "easeInOut" -> "power2.inOut"
      [] easing = "backOut" -> "back.out(1.7)"
      [] easing = "cubicOut" -> "power3.out"
      [] easing = "cubicInOut" -> "power3.inOut"
      [] easing = "bounceOut" -> "bounce.out"
      [] easing = "elasticOut" -> "elastic.out(1, 0.3)"
      [] easing = "quadOut" -> "power1.out"
      [] easing = "spring" -> "back.out(2.5)"
      [] OTHER -> easing

\* The curves gsap.parseEase returns for the names above; any other name
\* has no curve and the progress passes through.
Half == Frac(1, 2)
Mirror(t) == Minus(Whole(1), t)
Cube(t) == Times(t, Times(t, t))
BackIn(t, overshoot) ==
    Times(Times(t, t), Minus(Times(Plus(overshoot, Whole(1)), t), overshoot))

Fourth(t) == Times(Times(t, t), Times(t, t))

\* bounce.out: four parabolas
BounceOut(t) ==
    LET n2 == Frac(121, 16)
        arc(centre, floor) ==
            Plus(Times(n2, Times(Minus(t, centre), Minus(t, centre))), floor)
    IN  IF Less(t, Frac(4, 11)) THEN Times(n2, Times(t, t))
        ELSE IF Less(t, Frac(8, 11)) THEN arc(Frac(6, 11), Frac(3, 4))
        ELSE IF Less(t, Frac(10, 11)) THEN arc(Frac(9, 11), Frac(15, 16))
        ELSE arc(Frac(21, 22), Frac(63, 64))

\* elastic.out(1, 0.3): 1 at t = 1, else 2^(-10 t) * sin((t - 0.075) * 2 pi / 0.3) + 1.
\* At 0 the sine is sin(-pi / 2) = -1; at 1/2 the power is 1/32 and the sine
\* sin(17 pi / 6) = 1/2; elsewhere the value is no fraction and stays a term.
ElasticOut(t) ==
    IF t = Whole(1) THEN Whole(1)
    ELSE IF t = Whole(0) THEN Plus(Times(Whole(1), Whole(0 - 1)), Whole(1))
    ELSE IF t = Half THEN Plus(Times(Frac(1, 32), Half), Whole(1))
    ELSE <<"elastic.out(1, 0.3)", t>>

parseEase(gsapName, t) ==
    CASE gsapName = "none" -> t
      [] gsapName = "power3.out" -> Mirror(Fourth(Mirror(t)))
      [] gsapName = "power3.inOut" ->
            IF Less(t, Half)
            THEN Times(Half, Fourth(Times(Whole(2), t)))
            ELSE Mirror(Times(Half, Fourth(Times(Whole(2), Mirror(t)))))
      [] gsapName = "bounce.out" -> BounceOut(t)
      [] gsapName = "elastic.out(1, 0.3)" -> ElasticOut(t)
      [] gsapName = "back.out(2.5)" -> Mirror(BackIn(Mirror(t), Frac(5, 2)))
      [] gsapName = "power1.in" -> Times(t, t)
      [] gsapName = "power1.out" -> Mirror(Times(Mirror(t), Mirror(t)))
      [] gsapName = "power2.inOut" ->
            IF Less(t, Half)
            THEN Times(Half, Cube(Times(Whole(2), t)))
            ELSE Mirror(Times(Half, Cube(Times(Whole(2), Mirror(t)))))
      [] gsapName = "back.out(1.7)" -> Mirror(BackIn(Mirror(t), Frac(17, 10)))
      [] OTHER -> t

\* A mutation: the curve is evaluated at the progress as it came.
easeProgressUnclamped(progress, easing) == parseEase(easingAliases(easing), progress)

easeProgress(progress, easing) == parseEase(easingAliases(easing), Clamp01(progress))

lerp(a, b, t) == Plus(a, Times(Minus(b, a), t))

\* A scale is <<>> (undefined), <<s>> (one number) or <<sx, sy, sz>>.
normalizeScale(s) ==
    IF s = <<>> THEN <<1, 1, 1>>
    ELSE IF Len(s) = 1 THEN <<s[1], s[1], s[1]>>
    ELSE s

\* value ?? fallback on an optional number
OrElse(value, fallback) == IF value = Absent THEN fallback ELSE value[1]

\* gsap.utils.interpolate(c1, c2, t) on two colours: a blend, not a name
lerpColor(c1, c2, t) == <<"blend", c1, c2, t>>

InterpolatedState(x, y, z, rotateX, rotateY, rotateZ, scale, opacity, color) ==
    [x |-> x, y |-> y, z |-> z,
     rotateX |-> rotateX, rotateY |-> rotateY, rotateZ |-> rotateZ,
     scaleX |-> scale[1], scaleY |-> scale[2], scaleZ |-> scale[3],
     opacity |-> opacity, color |-> color]

\* The state returned for one keyframe as it is: its fields, defaults filled in.
AsIs(kf) ==
    LET scale == normalizeScale(kf.scale) IN
    InterpolatedState(
        Whole(OrElse(kf.x, 0)), Whole(OrElse(kf.y, 0)), Whole(OrElse(kf.z, 0)),
        Whole(OrElse(kf.rotateX, 0)), Whole(OrElse(kf.rotateY, 0)), Whole(OrElse(kf.rotateZ, 0)),
        <<Whole(scale[1]), Whole(scale[2]), Whole(scale[3])>>,
        Whole(OrElse(kf.opacity, 1)),
        kf.color)

NeutralState ==
    InterpolatedState(Whole(0), Whole(0), Whole(0), Whole(0), Whole(0), Whole(0),
                      <<Whole(1), Whole(1), Whole(1)>>, Whole(1), Absent)

\* The for loop of keyframes.ts 190-196: the first i with
\* kfs[i].time <= p < kfs[i + 1].time, the first keyframe if there is none.
FromIndex(kfs, p) ==
    LET hits == {i \in 1..(Len(kfs) - 1) :
                    AtMost(kfs[i].time, p) /\ Less(p, kfs[i + 1].time)}
    IN  IF hits = {} THEN 1 ELSE CHOOSE i \in hits : \A j \in hits : i <= j

\* from.f ?? 0 eased towards to.f ?? from.f ?? 0
Held(from, to, t, fallback) ==
    lerp(Whole(OrElse(from, fallback)), Whole(OrElse(to, OrElse(from, fallback))), t)

Between(kfs, p) ==
    LET from == kfs[FromIndex(kfs, p)]
        to == kfs[FromIndex(kfs, p) + 1]
        segmentLength == Minus(to.time, from.time)
        localProgress == IF Less(Whole(0), segmentLength)
                         THEN Over(Minus(p, from.time), segmentLength) ELSE Whole(0)
        eased == easeProgress(localProgress,
                              IF from.easing # Absent THEN from.easing[1] ELSE "easeInOut")
        fromScale == normalizeScale(from.scale)
        toScale == normalizeScale(to.scale)
    IN  InterpolatedState(
            Held(from.x, to.x, eased, 0), Held(from.y, to.y, eased, 0),
            Held(from.z, to.z, eased, 0),
            Held(from.rotateX, to.rotateX, eased, 0), Held(from.rotateY, to.rotateY, eased, 0),
            Held(from.rotateZ, to.rotateZ, eased, 0),
            <<lerp(Whole(fromScale[1]), Whole(toScale[1]), eased),
              lerp(Whole(fromScale[2]), Whole(toScale[2]), eased),
              lerp(Whole(fromScale[3]), Whole(toScale[3]), eased)>>,
            Held(from.opacity, to.opacity, eased, 1),
            IF from.color # Absent /\ to.color # Absent
            THEN Given(lerpColor(from.color[1], to.color[1], eased))
            ELSE IF to.color # Absent THEN to.color ELSE from.color)

\* A mutation: past the last keyframe the track returns to its first keyframe.
interpolateKeyframesLooping(kfs, progress) ==
    LET p == Clamp01(progress) IN
    IF kfs = <<>> THEN NeutralState
    ELSE IF Len(kfs) = 1 THEN AsIs(kfs[1])
    ELSE IF AtMost(p, kfs[1].time) THEN AsIs(kfs[1])
    ELSE IF AtMost(kfs[Len(kfs)].time, p) THEN AsIs(kfs[1])
    ELSE Between(kfs, p)

interpolateKeyframes(kfs, progress) ==
    LET p == Clamp01(progress) IN
    IF kfs = <<>> THEN NeutralState
    ELSE IF Len(kfs) = 1 THEN AsIs(kfs[1])
    ELSE IF AtMost(p, kfs[1].time) THEN AsIs(kfs[1])
    ELSE IF AtMost(kfs[Len(kfs)].time, p) THEN AsIs(kfs[Len(kfs)])
    ELSE Between(kfs, p)

(***************************************************************************)
(* SpecKeyframes: interpolateKeyframes applied to every sorted track and   *)
(* progress of the bounds                                                  *)
(***************************************************************************)
MaxKeyframes == 3       \* keyframes of one track
TimeSteps == 2          \* keyframe times are k / TimeSteps, k in 0..TimeSteps

Keyframe(time, x, y, rotateZ, scale, opacity, color, easing) ==
    [time |-> time, x |-> x, y |-> y, z |-> Absent,
     rotateX |-> Absent, rotateY |-> Absent, rotateZ |-> rotateZ,
     scale |-> scale, opacity |-> opacity, color |-> color, easing |-> easing]

\* time: 0-1 within step (types/index.ts 14)
KeyframeTimes == {Frac(k, TimeSteps) : k \in 0..TimeSteps}

AnyKeyframes ==
    UNION { { Keyframe(t, Absent, Absent, Absent, <<>>, Absent, Absent, Absent),
              Keyframe(t, Given(4), Absent, Absent, <<2>>, Given(0), Given("red"),
                       Given("linear")),
              Keyframe(t, Given(0), Given(2), Absent, <<1, 2, 3>>, Absent, Given("blue"),
                       Given("backOut")),
              Keyframe(t, Absent, Given(6), Given(90), <<>>, Given(1), Absent,
                       Given("easeIn")),
              Keyframe(t, Given(8), Absent, Absent, <<>>, Absent, Absent,
                       Given("wobble")) } : t \in KeyframeTimes }

\* "Keyframes must be sorted by time ascending" (keyframes.ts 114)
Sorted(kfs) == \A i \in 1..(Len(kfs) - 1) : AtMost(kfs[i].time, kfs[i + 1].time)

SortedTracks == {kfs \in SeqsUpTo(AnyKeyframes, MaxKeyframes) : Sorted(kfs)}

\* Progress values below 0, on and between the keyframe times, above 1.
Progresses == {Frac(k, 2 * TimeSteps) : k \in (0 - 2)..(2 * TimeSteps + 2)}

InitKeyframes ==
    /\ NoTimeline
    /\ query = NoQuery
    /\ section = NoSection
    /\ fixedSection = NoSection
    /\ keyframes \in SortedTracks
    /\ sample = NoSample
    /\ easeCall = NoEase
    /\ registrations = {}
    /\ speedCall = NoSpeedCall
    /\ legacyCall = NoLegacyCall
    /\ retry = NoRetry

Interpolate(progress) ==
    /\ sample' = [progress |-> progress,
                  frame |-> interpolateKeyframes(keyframes, progress),
                  asked |-> TRUE]
    /\ UNCHANGED <<tlVars, query, repairVars, keyframes, easeCall, registrations, speedCall, callVars>>

NextKeyframes == \E progress \in Progresses : Interpolate(progress)

SpecKeyframes == InitKeyframes /\ [][NextKeyframes]_vars

(***************************************************************************)
(* Claims about interpolateKeyframes (checked under SpecKeyframes)         *)
(***************************************************************************)
FirstKeyframe == keyframes[1]
LastKeyframe == keyframes[Len(keyframes)]

\* A keyframe's own fields, 0 for a missing offset or rotation, 1 for a
\* missing scale or opacity.
Value(field, default) == IF field = <<>> THEN <<default, 1>> ELSE <<field[1], 1>>
ScaleAxis(scale, axis) ==
    IF scale = <<>> THEN <<1, 1>>
    ELSE IF Len(scale) = 1 THEN <<scale[1], 1>>
    ELSE <<scale[axis], 1>>
FieldsOf(kf) ==
    [x |-> Value(kf.x, 0), y |-> Value(kf.y, 0), z |-> Value(kf.z, 0),
     rotateX |-> Value(kf.rotateX, 0), rotateY |-> Value(kf.rotateY, 0),
     rotateZ |-> Value(kf.rotateZ, 0),
     scaleX |-> ScaleAxis(kf.scale, 1), scaleY |-> ScaleAxis(kf.scale, 2),
     scaleZ |-> ScaleAxis(kf.scale, 3),
     opacity |-> Value(kf.opacity, 1), color |-> kf.color]

Sampled == sample.asked /\ keyframes # <<>>

\* C10 as stated: for a track sorted by time, every progress at or before
\* the first keyframe's time yields the first keyframe's fields with defaults
\* filled in, every progress at or after the last keyframe's time yields the
\* last keyframe's fields; progress 0 yields the first and 1 the last.
NoExtrapolation ==
    Sampled =>
        /\ AtMost(sample.progress, FirstKeyframe.time) => sample.frame = FieldsOf(FirstKeyframe)
        /\ AtMost(LastKeyframe.time, sample.progress) => sample.frame = FieldsOf(LastKeyframe)
        /\ sample.progress = Whole(0) => sample.frame = FieldsOf(FirstKeyframe)
        /\ sample.progress = Whole(1) => sample.frame = FieldsOf(LastKeyframe)

\* C10 amended: the first keyframe wins.  Every progress at or before
\* the first keyframe's time yields the first keyframe's fields; a progress at
\* or after the last keyframe's time yields the last keyframe's fields unless
\* the progress, clamped to [0, 1], is also at or before the first keyframe's
\* time (all keyframes then share that time), when it yields the first's.
NoExtrapolationFirstWins ==
    Sampled =>
        /\ AtMost(sample.progress, FirstKeyframe.time) => sample.frame = FieldsOf(FirstKeyframe)
        /\ AtMost(LastKeyframe.time, sample.progress) =>
              sample.frame = IF AtMost(Clamp01(sample.progress), FirstKeyframe.time)
                             THEN FieldsOf(FirstKeyframe)
                             ELSE FieldsOf(LastKeyframe)
        /\ sample.progress = Whole(0) => sample.frame = FieldsOf(FirstKeyframe)
        /\ (sample.progress = Whole(1) /\ Less(FirstKeyframe.time, Whole(1))) =>
              sample.frame = FieldsOf(LastKeyframe)

\* C10 witness: a track of three keyframes ending before 1, sampled at 1:
\* the last keyframe's fields come back, and they are not the first's.
NoExtrapolationFirstWinsWitness ==
    /\ Sampled
    /\ Len(keyframes) = 3
    /\ Less(FirstKeyframe.time, LastKeyframe.time)
    /\ Less(LastKeyframe.time, Whole(1))
    /\ sample.progress = Whole(1)
    /\ sample.frame = FieldsOf(LastKeyframe)
    /\ sample.frame # FieldsOf(FirstKeyframe)
    /\ LastKeyframe.opacity = Absent

\* The bracket a sampled progress falls in: the i with
\* keyframes[i].time <= progress < keyframes[i + 1].time.
BracketsHolding ==
    {i \in 1..(Len(keyframes) - 1) :
        AtMost(keyframes[i].time, sample.progress)
        /\ Less(sample.progress, keyframes[i + 1].time)}

HeldFields == {"x", "y", "z", "rotateX", "rotateY", "rotateZ", "opacity"}
DefaultOf(field) == IF field = "opacity" THEN 1 ELSE 0

\* Every offset, rotation and opacity missing on `to` is at `from`'s value.
FieldsHeldIn(i) ==
    \A field \in HeldFields :
        keyframes[i + 1][field] = Absent =>
            sample.frame[field] = Value(keyframes[i][field], DefaultOf(field))

\* A scale missing on `to` is at `from`'s value.
ScaleHeldIn(i) ==
    keyframes[i + 1].scale = <<>> =>
        /\ sample.frame.scaleX = ScaleAxis(keyframes[i].scale, 1)
        /\ sample.frame.scaleY = ScaleAxis(keyframes[i].scale, 2)
        /\ sample.frame.scaleZ = ScaleAxis(keyframes[i].scale, 3)

\* C11: inside a bracket [from, to] (from.time <= progress < to.time) every
\* numeric property (x, y, z, rotateX, rotateY, rotateZ, scale, opacity)
\* missing on `to` holds at `from`'s value, whatever the eased progress.
MissingOnToHoldsFrom ==
    Sampled => \A i \in BracketsHolding : FieldsHeldIn(i) /\ ScaleHeldIn(i)

\* The value a field has at keyframe i when a keyframe that leaves it out
\* keeps the previous keyframe's value: that of the latest keyframe up to i
\* that sets it, the default when none does.
RECURSIVE Carried(_, _)
Carried(i, field) ==
    IF i = 0 THEN <<DefaultOf(field), 1>>
    ELSE IF keyframes[i][field] # Absent THEN <<keyframes[i][field][1], 1>>
    ELSE Carried(i - 1, field)

StrictlyAscending ==
    \A i \in 1..(Len(keyframes) - 1) : Less(keyframes[i].time, keyframes[i + 1].time)

\* C26: in a track of three or more keyframes at ascending times, an offset,
\* rotation or opacity that keyframes leave out keeps the value of the latest
\* keyframe that set it: in a bracket whose `to` leaves it out and from the
\* last keyframe on, it is at that value, and at the default only when no
\* keyframe so far has set it.
MissingFieldKeepsLastSet ==
    (Sampled /\ Len(keyframes) >= 3 /\ StrictlyAscending) =>
        \A field \in HeldFields :
            /\ \A i \in BracketsHolding :
                  keyframes[i + 1][field] = Absent => sample.frame[field] = Carried(i, field)
            /\ AtMost(LastKeyframe.time, sample.progress) =>
                  sample.frame[field] = Carried(Len(keyframes), field)

(***************************************************************************)
(* SpecEasing: easeProgress applied to every easing name and progress      *)
(***************************************************************************)
\* The keys of easingAliases
LegacyNames == {"linear", "easeIn", "easeOut", "easeInOut", "backOut", "cubicOut",
                "cubicInOut", "bounceOut", "elasticOut", "quadOut", "spring"}
\* The curves they stand for, under the library's own names
CanonicalNames == {easingAliases(name) : name \in LegacyNames}
\* Names no curve answers to
UnknownNames == {"wobble", "ease-in", ""}

InitEasing ==
    /\ NoTimeline
    /\ query = NoQuery
    /\ section = NoSection
    /\ fixedSection = NoSection
    /\ keyframes = <<>>
    /\ sample = NoSample
    /\ easeCall = NoEase
    /\ registrations = {}
    /\ speedCall = NoSpeedCall
    /\ legacyCall = NoLegacyCall
    /\ retry = NoRetry

EaseProgress(progress, easing) ==
    /\ easeCall' = [progress |-> progress, easing |-> easing,
                 value |-> easeProgress(progress, easing), asked |-> TRUE]
    /\ UNCHANGED <<tlVars, query, repairVars, keyframes, sample, registrations, speedCall, callVars>>

NextEasing ==
    \E progress \in Progresses, easing \in LegacyNames \cup CanonicalNames \cup UnknownNames :
        EaseProgress(progress, easing)

SpecEasing == InitEasing /\ [][NextEasing]_vars

(***************************************************************************)
(* Claims about easeProgress (checked under SpecEasing)                    *)
(***************************************************************************)
SupportedNames == LegacyNames \cup CanonicalNames

\* C12: for every supported easing name, legacy alias or canonical curve,
\* easeProgress(0, name) = 0 and easeProgress(1, name) = 1 exactly; an input
\* below 0 or above 1 is clamped first (so it gives 0, respectively 1); an
\* unrecognized name yields the clamped input unchanged.
EasingExactAtEndpoints ==
    easeCall.asked =>
        /\ (easeCall.easing \in SupportedNames /\ AtMost(easeCall.progress, <<0, 1>>)) =>
              easeCall.value = <<0, 1>>
        /\ (easeCall.easing \in SupportedNames /\ AtMost(<<1, 1>>, easeCall.progress)) =>
              easeCall.value = <<1, 1>>
        /\ easeCall.easing \notin SupportedNames =>
              easeCall.value = IF Less(easeCall.progress, <<0, 1>>) THEN <<0, 1>>
                            ELSE IF Less(<<1, 1>>, easeCall.progress) THEN <<1, 1>>
                            ELSE easeCall.progress

\* C12 witness: an overshooting curve asked beyond 1 answers exactly 1, and
\* the same curve overshoots inside the interval.
EasingExactAtEndpointsWitness ==
    /\ easeCall.asked
    /\ easeCall.easing = "spring"
    /\ Less(<<1, 1>>, easeCall.progress)
    /\ easeCall.value = <<1, 1>>
    /\ Less(<<1, 1>>, easeProgress(<<3, 4>>, "spring"))

(***************************************************************************)
(* SpecListeners: one controller, its subscribers and the unsubscribe      *)
(* handles they hold                                                       *)
(***************************************************************************)
MaxRegistrations == 2   \* subscribe() calls whose handle is still uncalled

\* The listener functions callers pass to subscribe()
Callbacks == 1..(MaxListeners + 1)

HandleIds == 1..MaxRegistrations

\* const unsubscribe = subscribe(l): l joins the listener set, the caller
\* keeps the handle.
SubscribeHandle(l) ==
    /\ Cardinality(registrations) < MaxRegistrations
    /\ LET h == CHOOSE n \in HandleIds :
                    /\ \A r \in registrations : r[1] # n
                    /\ \A m \in HandleIds : (\A r \in registrations : r[1] # m) => n <= m
       IN  registrations' = registrations \cup {<<h, l>>}
    /\ listeners' = listeners \cup {l}
    /\ UNCHANGED <<script, sectionStartTimes, transitionStartTimes, currentTime, speed,
                   playing, rafId, lastTimestamp, pending, now, lastNote,
                   query, repairVars, keyVars, speedCall, callVars>>

\* unsubscribe(): the handle h deletes the listener it closes over.
UnsubscribeHandle(h) ==
    /\ \E r \in registrations :
        /\ r[1] = h
        /\ registrations' = registrations \ {r}
        /\ listeners' = listeners \ {r[2]}
    /\ UNCHANGED <<script, sectionStartTimes, transitionStartTimes, currentTime, speed,
                   playing, rafId, lastTimestamp, pending, now, lastNote,
                   query, repairVars, keyVars, speedCall, callVars>>

InitListeners ==
    /\ \E s \in ScriptsOver(BuiltSections) :
          /\ Len(s.sections) = 1
          /\ s.totalDuration = MaxDuration
          /\ Constructed(s)
    /\ Untouched

NextListeners ==
    \/ Play
    \/ Pause
    \/ \E t \in 0..script.totalDuration : Seek(t)
    \/ \E l \in Callbacks : SubscribeHandle(l)
    \/ \E h \in HandleIds : UnsubscribeHandle(h)
    \/ Destroy
    \/ \E h \in pending, gap \in 1..MaxFrameGap : Tick(h, gap)

SpecListeners == InitListeners /\ [][NextListeners]_vars

(***************************************************************************)
(* Claims about subscriptions (checked under SpecListeners)                *)
(***************************************************************************)
\* C16: subscribe(listener) returns an unsubscribe handle and registrations
\* are independent: a notification reaches every registration currently
\* subscribed, and calling one registration's handle stops delivery to that
\* registration only, so every other registration still has its listener in
\* the set notify() walks.
RegistrationsIndependent ==
    \A r \in registrations : r[2] \in listeners

(***************************************************************************)
(* SpecPlayback: uninterrupted playback.  The speed stays positive, nobody *)
(* pauses, destroys or seeks while the timeline plays, and the host runs   *)
(* every frame callback it was asked for.                                  *)
(***************************************************************************)
PositiveSpeeds == {m \in Speeds : m > 0}

AnyFrame == \E h \in pending, gap \in 1..MaxFrameGap : Tick(h, gap)

NextPlayback ==
    \/ Play
    \/ \E t \in 0..script.totalDuration : ~playing /\ Seek(t)
    \/ \E m \in PositiveSpeeds : SetSpeed(m)
    \/ \E l \in ListenerIds : Subscribe(l)
    \/ \E h \in pending, gap \in 1..MaxFrameGap : Tick(h, gap)

\* requestAnimationFrame: a requested callback is run at one of the next frames.
SpecPlayback == Init /\ [][NextPlayback]_vars /\ WF_vars(AnyFrame)

(***************************************************************************)
(* Claims about playback (checked under SpecPlayback)                      *)
(***************************************************************************)
\* Seconds of host time the frames may take, at most, to play to the end:
\* the first frame after a (re)start only sets the baseline, every later one
\* advances by at least its gap, the last one may overshoot.
ClockNeeded ==
    (IF lastTimestamp = Null THEN MaxFrameGap ELSE 0)
        + (script.totalDuration - currentTime) + (MaxFrameGap - 1)

ClockLeft == MaxClock - now \div MsPerSecond

Ended ==
    /\ ~playing
    /\ currentTime = script.totalDuration
    /\ rafId = Null
    /\ pending = {}
    /\ lastNote.kind = "tick"
    /\ lastNote.state.phase = "complete"
    /\ lastNote.state.globalTime = script.totalDuration
    /\ lastNote.to = listeners

\* C17: while playing with a positive speed and frames that keep coming,
\* with no pause, seek or destroy in between, the tick loop eventually
\* reaches the end: currentTime is exactly totalDuration, playing is false,
\* no tick is scheduled and the subscribers got a last notification with
\* phase 'complete'.  (Stated for the playbacks the host clock of the model
\* has time left for.)
PlaybackReachesEnd ==
    (playing /\ speed > 0 /\ ClockNeeded <= ClockLeft) ~> Ended

\* C17 witness: the end reached by advancing ticks, in front of a subscriber.
PlaybackReachesEndWitness ==
    /\ Ended
    /\ script.totalDuration > 0
    /\ lastNote.to # {}
    /\ now >= 2 * MsPerSecond

(***************************************************************************)
(* SpecSpeed: playback with speed changes made at a known moment between   *)
(* two frames                                                              *)
(***************************************************************************)
\* A setSpeed() that rescales the time accumulated so far by the new
\* multiplier (not what the code does).
SetSpeedAtRescaling(multiplier, after) ==
    /\ speedCall.at < now
    /\ speed' = multiplier
    /\ currentTime' = currentTime * multiplier
    /\ speedCall' = [at |-> now + after * MsPerSecond, from |-> speed]
    /\ UNCHANGED <<script, sectionStartTimes, transitionStartTimes, playing,
                   rafId, lastTimestamp, listeners, pending, now, lastNote,
                   query, repairVars, keyVars, registrations, callVars>>

\* setSpeed(multiplier) called `after` seconds after the latest frame.
SetSpeedAt(multiplier, after) ==
    /\ speedCall.at < now
    /\ speed' = multiplier
    /\ speedCall' = [at |-> now + after * MsPerSecond, from |-> speed]
    /\ UNCHANGED <<script, sectionStartTimes, transitionStartTimes, currentTime, playing,
                   rafId, lastTimestamp, listeners, pending, now, lastNote,
                   query, repairVars, keyVars, registrations, callVars>>

InitSpeed ==
    /\ \E s \in ScriptsOver(BuiltSections) :
          /\ s.totalDuration >= MaxDuration + MaxTransition
          /\ Constructed(s)
    /\ Untouched

\* The next frame comes no earlier than the latest call.
NextSpeed ==
    \/ Play
    \/ Pause
    \/ \E t \in 0..script.totalDuration : Seek(t)
    \/ \E m \in Speeds, after \in 0..(MaxFrameGap - 1) : SetSpeedAt(m, after)
    \/ \E h \in pending, gap \in 1..MaxFrameGap :
          /\ speedCall.at <= now + gap * MsPerSecond
          /\ Tick(h, gap)

SpecSpeed == InitSpeed /\ [][NextSpeed]_vars

(***************************************************************************)
(* Claims about setSpeed (checked under SpecSpeed)                         *)
(***************************************************************************)
AnySetSpeedAt == \E m \in Speeds, after \in 0..(MaxFrameGap - 1) : SetSpeedAt(m, after)

ClampedToEnd(time) == IF time >= script.totalDuration THEN script.totalDuration ELSE time

\* The part of the interval since the baseline that had passed when
\* setSpeed() was called, in seconds.
BeforeCall == (Max(speedCall.at, lastTimestamp) - lastTimestamp) \div MsPerSecond

\* C20 as stated: setSpeed() leaves the accumulated time unchanged, and the
\* tick that follows multiplies by the new speed only the time that elapsed
\* after the call: what had elapsed before it counts at the speed it replaced.
SpeedNotRetroactive ==
    /\ [][AnySetSpeedAt => currentTime' = currentTime]_vars
    /\ [][(AnyTick /\ lastTimestamp # Null) =>
            currentTime' = ClampedToEnd(currentTime
                + BeforeCall * speedCall.from
                + ((now' - lastTimestamp) \div MsPerSecond - BeforeCall) * speed)]_vars

\* C20 amended: setSpeed() leaves the accumulated time unchanged and the
\* time accumulated by earlier ticks is never rescaled; the new multiplier
\* takes effect at the next tick's delta computation, which multiplies the
\* whole interval since the previous tick by it, the part that elapsed before
\* the call included.
SpeedAppliesFromNextTick ==
    /\ [][AnySetSpeedAt => currentTime' = currentTime]_vars
    /\ [][(AnyTick /\ lastTimestamp # Null) =>
            currentTime' = ClampedToEnd(currentTime
                + ((now' - lastTimestamp) \div MsPerSecond) * speed)]_vars

\* C20 witness: a tick two seconds after its baseline, one second after a
\* call that doubled the speed, has advanced the time by four seconds.
SpeedAppliesFromNextTickWitness ==
    /\ playing
    /\ speed = 2
    /\ speedCall.from = 1
    /\ speedCall.at = now - MsPerSecond
    /\ lastTimestamp = now
    /\ now = 3 * MsPerSecond
    /\ currentTime = 4
    /\ lastNote.kind = "tick"

(***************************************************************************)
(* 3D keyframes and camera tracks.  A 3-vector is a tuple of three whole   *)
(* numbers in a keyframe and of three fractions in an interpolated state.  *)
(***************************************************************************)
Origin == <<0, 0, 0>>
Vec(v) == <<Whole(v[1]), Whole(v[2]), Whole(v[3])>>

lerpTuple3(a, b, t) == <<lerp(a[1], b[1], t), lerp(a[2], b[2], t), lerp(a[3], b[3], t)>>

Interpolated3DState(position, rotation, scale, opacity) ==
    [position |-> position, rotation |-> rotation, scale |-> scale, opacity |-> opacity]

defaultState == Interpolated3DState(Vec(Origin), Vec(Origin), Vec(<<1, 1, 1>>), Whole(1))

\* The state returned for one 3D keyframe as it is.
AsIs3D(kf) ==
    Interpolated3DState(Vec(OrElse(kf.position, Origin)), Vec(OrElse(kf.rotation, Origin)),
                        Vec(normalizeScale(kf.scale)), Whole(OrElse(kf.opacity, 1)))

\* The easing and local progress of the bracket that holds p.
EasedIn(kfs, p) ==
    LET from == kfs[FromIndex(kfs, p)]
        to == kfs[FromIndex(kfs, p) + 1]
        segLen == Minus(to.time, from.time)
        local == IF Less(Whole(0), segLen) THEN Over(Minus(p, from.time), segLen) ELSE Whole(0)
    IN  easeProgress(local, IF from.easing # Absent THEN from.easing[1] ELSE "easeInOut")

Between3D(kfs, p) ==
    LET from == kfs[FromIndex(kfs, p)]
        to == kfs[FromIndex(kfs, p) + 1]
        t == EasedIn(kfs, p)
    IN  Interpolated3DState(
            lerpTuple3(Vec(OrElse(from.position, Origin)),
                       Vec(OrElse(to.position, OrElse(from.position, Origin))), t),
            lerpTuple3(Vec(OrElse(from.rotation, Origin)),
                       Vec(OrElse(to.rotation, OrElse(from.rotation, Origin))), t),
            lerpTuple3(Vec(normalizeScale(from.scale)), Vec(normalizeScale(to.scale)), t),
            Held(from.opacity, to.opacity, t, 1))

interpolate3DKeyframes(kfs, progress) ==
    LET p == Clamp01(progress) IN
    IF kfs = <<>> THEN defaultState
    ELSE IF Len(kfs) = 1 THEN AsIs3D(kfs[1])
    ELSE IF AtMost(p, kfs[1].time) THEN AsIs3D(kfs[1])
    ELSE IF AtMost(kfs[Len(kfs)].time, p) THEN AsIs3D(kfs[Len(kfs)])
    ELSE Between3D(kfs, p)

InterpolatedCameraState(position, lookAt, fov) ==
    [position |-> position, lookAt |-> lookAt, fov |-> fov]

defaults == InterpolatedCameraState(Vec(<<0, 0, 6>>), Vec(Origin), Whole(50))

\* The state returned for one camera keyframe as it is.
AsIsCamera(kf) ==
    InterpolatedCameraState(Vec(kf.position), Vec(OrElse(kf.lookAt, Origin)),
                            Whole(OrElse(kf.fov, 50)))

BetweenCamera(kfs, p) ==
    LET from == kfs[FromIndex(kfs, p)]
        to == kfs[FromIndex(kfs, p) + 1]
        t == EasedIn(kfs, p)
    IN  InterpolatedCameraState(
            lerpTuple3(Vec(from.position), Vec(to.position), t),
            lerpTuple3(Vec(OrElse(from.lookAt, Origin)), Vec(OrElse(to.lookAt, Origin)), t),
            lerp(Whole(OrElse(from.fov, 50)), Whole(OrElse(to.fov, 50)), t))

interpolateCameraTrack(kfs, progress) ==
    LET p == Clamp01(progress) IN
    IF kfs = <<>> THEN defaults
    ELSE IF Len(kfs) = 1 THEN AsIsCamera(kfs[1])
    ELSE IF AtMost(p, kfs[1].time) THEN AsIsCamera(kfs[1])
    ELSE IF AtMost(kfs[Len(kfs)].time, p) THEN AsIsCamera(kfs[Len(kfs)])
    ELSE BetweenCamera(kfs, p)

(***************************************************************************)
(* SpecTracks: interpolate3DKeyframes and interpolateCameraTrack applied   *)
(* to every sorted track and progress of the bounds                        *)
(***************************************************************************)
Keyframe3D(time, position, rotation, scale, opacity, easing) ==
    [time |-> time, position |-> position, rotation |-> rotation, scale |-> scale,
     opacity |-> opacity, easing |-> easing]

CameraKeyframe(time, position, lookAt, fov, easing) ==
    [time |-> time, position |-> position, lookAt |-> lookAt, fov |-> fov, easing |-> easing]

AnyKeyframes3D ==
    UNION { { Keyframe3D(t, Absent, Absent, <<>>, Absent, Absent),
              Keyframe3D(t, Given(<<2, 0, 4>>), Given(<<0, 90, 0>>), <<2>>, Given(0),
                         Given("linear")),
              Keyframe3D(t, Given(<<0, 6, 0>>), Absent, <<1, 2, 3>>, Absent, Given("backOut")),
              Keyframe3D(t, Absent, Given(<<30, 0, 0>>), <<>>, Given(1), Absent) }
            : t \in KeyframeTimes }

AnyCameraKeyframes ==
    UNION { { CameraKeyframe(t, <<0, 0, 6>>, Absent, Absent, Absent),
              CameraKeyframe(t, <<2, 0, 4>>, Given(<<0, 2, 0>>), Given(30), Given("linear")),
              CameraKeyframe(t, <<0, 4, 8>>, Given(<<2, 0, 0>>), Absent, Given("easeOut")),
              CameraKeyframe(t, <<4, 0, 0>>, Absent, Given(70), Absent) }
            : t \in KeyframeTimes }

SortedTracks3D == {kfs \in SeqsUpTo(AnyKeyframes3D, MaxKeyframes) : Sorted(kfs)}
SortedCameraTracks == {kfs \in SeqsUpTo(AnyCameraKeyframes, MaxKeyframes) : Sorted(kfs)}

InitTracks ==
    /\ NoTimeline
    /\ query = NoQuery
    /\ section = NoSection
    /\ fixedSection = NoSection
    /\ keyframes \in SortedTracks3D \cup SortedCameraTracks
    /\ sample = NoSample
    /\ easeCall = NoEase
    /\ registrations = {}
    /\ speedCall = NoSpeedCall
    /\ legacyCall = NoLegacyCall
    /\ retry = NoRetry

Is3DTrack == \A i \in 1..Len(keyframes) : "rotation" \in DOMAIN keyframes[i]
IsCameraTrack == \A i \in 1..Len(keyframes) : "lookAt" \in DOMAIN keyframes[i]

Interpolate3D(progress) ==
    /\ Is3DTrack
    /\ sample' = [progress |-> progress,
                  frame |-> interpolate3DKeyframes(keyframes, progress),
                  asked |-> TRUE]
    /\ UNCHANGED <<tlVars, query, repairVars, keyframes, easeCall, registrations, speedCall, callVars>>

InterpolateCamera(progress) ==
    /\ IsCameraTrack
    /\ sample' = [progress |-> progress,
                  frame |-> interpolateCameraTrack(keyframes, progress),
                  asked |-> TRUE]
    /\ UNCHANGED <<tlVars, query, repairVars, keyframes, easeCall, registrations, speedCall, callVars>>

NextTracks ==
    \/ \E progress \in Progresses : Interpolate3D(progress)
    \/ \E progress \in Progresses : InterpolateCamera(progress)

SpecTracks == InitTracks /\ [][NextTracks]_vars

(***************************************************************************)
(* Claims about 3D and camera tracks (checked under SpecTracks)            *)
(***************************************************************************)
Sampled3D == Sampled /\ "rotation" \in DOMAIN sample.frame
SampledCamera == Sampled /\ "fov" \in DOMAIN sample.frame

\* A 3D keyframe's own vector, the origin when it has none.
VecOf(field) == Vec(OrElse(field, Origin))

\* Every property of a 3D keyframe missing on `to` is at `from`'s value.
Held3DIn(i) ==
    /\ keyframes[i + 1].position = Absent => sample.frame.position = VecOf(keyframes[i].position)
    /\ keyframes[i + 1].rotation = Absent => sample.frame.rotation = VecOf(keyframes[i].rotation)
    /\ keyframes[i + 1].scale = <<>> =>
          sample.frame.scale = <<ScaleAxis(keyframes[i].scale, 1),
                                 ScaleAxis(keyframes[i].scale, 2),
                                 ScaleAxis(keyframes[i].scale, 3)>>
    /\ keyframes[i + 1].opacity = Absent => sample.frame.opacity = Value(keyframes[i].opacity, 1)

\* lookAt and field of view missing on `to` are at `from`'s value.
HeldCameraIn(i) ==
    /\ keyframes[i + 1].lookAt = Absent => sample.frame.lookAt = VecOf(keyframes[i].lookAt)
    /\ keyframes[i + 1].fov = Absent => sample.frame.fov = Value(keyframes[i].fov, 50)

\* C25: interpolate3DKeyframes and interpolateCameraTrack hold as
\* interpolateKeyframes is said to: strictly inside a bracket [from, to] a
\* property missing on `to` (3D position, rotation, scale, opacity; camera
\* lookAt, field of view) is at `from`'s value, not on its way to a default.
TracksHoldMissingOnTo ==
    /\ (Sampled3D /\ Less(FirstKeyframe.time, sample.progress)) =>
          \A i \in BracketsHolding : Held3DIn(i)
    /\ (SampledCamera /\ Less(FirstKeyframe.time, sample.progress)) =>
          \A i \in BracketsHolding : HeldCameraIn(i)

(***************************************************************************)
(* keyframesFromLegacyAnimation.  Times and scales are fractions, offsets  *)
(* and opacities whole numbers.                                            *)
(***************************************************************************)
LegacyKeyframe(time, x, y, opacity, scale, easing) ==
    [time |-> time, x |-> x, y |-> y, opacity |-> opacity, scale |-> scale, easing |-> easing]

\* 0.15 + index * 0.05
enterEnd(index) == Frac(15 + 5 * index, 100)

\* Math.min on two fractions
MinOf(a, b) == IF AtMost(a, b) THEN a ELSE b

\* The lowering with the enter phase's end left uncapped (not what the code does).
keyframesFromLegacyAnimationUncapped(animation, elementProps, index) ==
    LET baseX == OrElse(elementProps.x, 0)
        baseY == OrElse(elementProps.y, 0)
        clampedEnterEnd == enterEnd(index)
        enterFrames ==
            CASE animation.enter = "slideUp" ->
                   <<LegacyKeyframe(Whole(0), baseX, baseY + 40, 0, Absent, Given("cubicOut")),
                     LegacyKeyframe(clampedEnterEnd, baseX, baseY, 1, Absent, Absent)>>
              [] animation.enter = "slideRight" ->
                   <<LegacyKeyframe(Whole(0), baseX - 40, baseY, 0, Absent, Given("cubicOut")),
                     LegacyKeyframe(clampedEnterEnd, baseX, baseY, 1, Absent, Absent)>>
              [] animation.enter = "scale" ->
                   <<LegacyKeyframe(Whole(0), baseX, baseY, 0, Given(Whole(0)), Given("backOut")),
                     LegacyKeyframe(clampedEnterEnd, baseX, baseY, 1, Given(Whole(1)), Absent)>>
              [] OTHER ->
                   <<LegacyKeyframe(Whole(0), baseX, baseY, 0, Absent, Given("easeOut")),
                     LegacyKeyframe(clampedEnterEnd, baseX, baseY, 1, Absent, Absent)>>
        holdFrame == LegacyKeyframe(Frac(3, 4), baseX, baseY, 1, Absent, Given("easeInOut"))
        exit == IF animation.exit # "" THEN animation.exit ELSE "fadeOut"
        exitFrame ==
            CASE exit = "slideDown" -> LegacyKeyframe(Whole(1), baseX, baseY + 40, 0, Absent, Absent)
              [] exit = "scaleDown" ->
                   LegacyKeyframe(Whole(1), baseX, baseY, 0, Given(Frac(1, 2)), Absent)
              [] exit = "slideLeft" -> LegacyKeyframe(Whole(1), baseX - 40, baseY, 0, Absent, Absent)
              [] OTHER -> LegacyKeyframe(Whole(1), baseX, baseY, 0, Absent, Absent)
    IN  enterFrames \o <<holdFrame, exitFrame>>

keyframesFromLegacyAnimation(animation, elementProps, index) ==
    LET baseX == OrElse(elementProps.x, 0)
        baseY == OrElse(elementProps.y, 0)
        clampedEnterEnd == MinOf(enterEnd(index), Frac(2, 5))
        enterFrames ==
            CASE animation.enter = "slideUp" ->
                   <<LegacyKeyframe(Whole(0), baseX, baseY + 40, 0, Absent, Given("cubicOut")),
                     LegacyKeyframe(clampedEnterEnd, baseX, baseY, 1, Absent, Absent)>>
              [] animation.enter = "slideRight" ->
                   <<LegacyKeyframe(Whole(0), baseX - 40, baseY, 0, Absent, Given("cubicOut")),
                     LegacyKeyframe(clampedEnterEnd, baseX, baseY, 1, Absent, Absent)>>
              [] animation.enter = "scale" ->
                   <<LegacyKeyframe(Whole(0), baseX, baseY, 0, Given(Whole(0)), Given("backOut")),
                     LegacyKeyframe(clampedEnterEnd, baseX, baseY, 1, Given(Whole(1)), Absent)>>
              [] OTHER ->
                   <<LegacyKeyframe(Whole(0), baseX, baseY, 0, Absent, Given("easeOut")),
                     LegacyKeyframe(clampedEnterEnd, baseX, baseY, 1, Absent, Absent)>>
        holdFrame == LegacyKeyframe(Frac(3, 4), baseX, baseY, 1, Absent, Given("easeInOut"))
        exit == IF animation.exit # "" THEN animation.exit ELSE "fadeOut"
        exitFrame ==
            CASE exit = "slideDown" -> LegacyKeyframe(Whole(1), baseX, baseY + 40, 0, Absent, Absent)
              [] exit = "scaleDown" ->
                   LegacyKeyframe(Whole(1), baseX, baseY, 0, Given(Frac(1, 2)), Absent)
              [] exit = "slideLeft" -> LegacyKeyframe(Whole(1), baseX - 40, baseY, 0, Absent, Absent)
              [] OTHER -> LegacyKeyframe(Whole(1), baseX, baseY, 0, Absent, Absent)
    IN  enterFrames \o <<holdFrame, exitFrame>>

(***************************************************************************)
(* SpecLegacy: keyframesFromLegacyAnimation applied to every descriptor,   *)
(* base position and element index of the bounds                           *)
(***************************************************************************)
MaxIndex == 6           \* element index within a step

\* enter / exit values: the recognized ones, unknown ones, "" for a missing exit
EnterValues == {"fadeIn", "slideUp", "slideRight", "scale", "typewriter"}
ExitValues == {"", "fadeOut", "none", "slideDown", "scaleDown", "slideLeft", "explode"}
BaseOffsets == {Absent, Given(0), Given(10)}

InitLegacy ==
    /\ NoTimeline
    /\ Untouched

KeyframesFromLegacyAnimation(enter, exit, x, y, index) ==
    /\ legacyCall' = [enter |-> enter, exit |-> exit, x |-> x, y |-> y, index |-> index,
                      keyframes |-> keyframesFromLegacyAnimation(
                                        [enter |-> enter, exit |-> exit],
                                        [x |-> x, y |-> y], index),
                      asked |-> TRUE]
    /\ UNCHANGED <<tlVars, query, repairVars, keyVars, registrations, speedCall, retry>>

NextLegacy ==
    \E enter \in EnterValues, exit \in ExitValues, x \in BaseOffsets, y \in BaseOffsets,
       index \in 0..MaxIndex :
        KeyframesFromLegacyAnimation(enter, exit, x, y, index)

SpecLegacy == InitLegacy /\ [][NextLegacy]_vars

(***************************************************************************)
(* Claims about keyframesFromLegacyAnimation (checked under SpecLegacy)    *)
(***************************************************************************)
ShapedExits == {"slideDown", "scaleDown", "slideLeft"}

Fields ==
    [currentTime |-> currentTime, playing |-> playing, rafId |-> rafId,
     lastTimestamp |-> lastTimestamp, pending |-> pending, note |-> lastNote]

\* requestAnimationFrame while the callback h is running
RequestedIn(c, h) ==
    LET next == CHOOSE n \in 1..(Cardinality(c.pending) + 3) :
                    n \notin c.pending /\ n # c.rafId /\ n # h
    IN  [c EXCEPT !.rafId = next, !.pending = @ \cup {next}]

\* play() (lines 851-859) on the threaded fields
PlayIn(c, h) ==
    IF c.playing THEN c
    ELSE RequestedIn([c EXCEPT !.currentTime = IF @ >= script.totalDuration THEN 0 ELSE @,
                               !.playing = TRUE,
                               !.lastTimestamp = Null], h)

\* pause() (lines 861-868) on the threaded fields
PauseIn(c) ==
    [c EXCEPT !.playing = FALSE,
              !.pending = IF c.rafId # Null THEN @ \ {c.rafId} ELSE @,
              !.rafId = Null,
              !.lastTimestamp = Null,
              !.note = [@ EXCEPT !.live = FALSE]]

\* What a subscriber does with the controller inside its callback
ListenerCalls == {<<>>, <<"pause">>, <<"play">>, <<"pause", "play">>}

RECURSIVE CallsIn(_, _, _)
CallsIn(c, calls, h) ==
    IF calls = <<>> THEN c
    ELSE CallsIn(IF Head(calls) = "pause" THEN PauseIn(c) ELSE PlayIn(c, h), Tail(calls), h)

\* notify() (lines 844-849): every listener is called with the state
NotifiedIn(c, calls, h) == IF listeners = {} THEN c ELSE CallsIn(c, calls, h)

\* tick(timestamp) (lines 820-842) run as the callback h
TickIn(c, h, timestamp, calls) ==
    LET last == IF c.lastTimestamp = Null THEN timestamp ELSE c.lastTimestamp
        delta == (timestamp - last) \div MsPerSecond
        advanced == c.currentTime + delta * speed
        started == [c EXCEPT !.pending = @ \ {h}, !.lastTimestamp = timestamp]
    IN  IF advanced >= script.totalDuration
        THEN NotifiedIn([started EXCEPT
                            !.currentTime = script.totalDuration,
                            !.playing = FALSE,
                            !.rafId = Null,
                            !.note = NotifyNote("tick", h, script.totalDuration, FALSE)],
                        calls, h)
        ELSE LET notified == NotifiedIn([started EXCEPT
                                            !.currentTime = advanced,
                                            !.note = NotifyNote("tick", h, advanced, c.playing)],
                                        calls, h)
             IN  IF notified.playing THEN RequestedIn(notified, h) ELSE notified

\* The host runs the callbacks that were pending when the frame began, one
\* after the other with the frame's timestamp; one cancelled meanwhile is skipped.
RECURSIVE RunFrame(_, _, _, _)
RunFrame(c, todo, timestamp, calls) ==
    IF todo = {} THEN c
    ELSE LET h == CHOOSE n \in todo : \A m \in todo : n <= m
         IN  RunFrame(IF h \in c.pending THEN TickIn(c, h, timestamp, calls) ELSE c,
                      todo \ {h}, timestamp, calls)

\* A frame `gap` seconds after the latest, with subscribers that make `calls`.
Frame(gap, calls) ==
    LET timestamp == now + gap * MsPerSecond
        c == RunFrame(Fields, pending, timestamp, calls)
    IN  /\ pending # {}
        /\ timestamp <= MaxClock * MsPerSecond
        /\ now' = timestamp
        /\ currentTime' = c.currentTime
        /\ playing' = c.playing
        /\ rafId' = c.rafId
        /\ lastTimestamp' = c.lastTimestamp
        /\ pending' = c.pending
        /\ lastNote' = c.note
        /\ UNCHANGED <<script, sectionStartTimes, transitionStartTimes, speed, listeners, pureVars>>

NextReentrant ==
    \/ Play
    \/ Pause
    \/ \E t \in 0..script.totalDuration : Seek(t)
    \/ \E m \in Speeds : SetSpeed(m)
    \/ \E l \in ListenerIds : Subscribe(l)
    \/ \E l \in ListenerIds : Unsubscribe(l)
    \/ Destroy
    \/ \E gap \in 1..MaxFrameGap, calls \in ListenerCalls : Frame(gap, calls)

SpecReentrant == InitListeners /\ [][NextReentrant]_vars

\* C28: under every interleaving of play, pause, seek, setSpeed, subscribe,
\* unsubscribe and destroy with the host's frames, control calls made by a
\* subscriber inside its callback included, at most one tick is pending in
\* the host's frame scheduler, and one is pending exactly when the timeline
\* is playing.
OneTickPendingIffPlaying ==
    /\ Cardinality(pending) <= 1
    /\ (pending # {}) <=> playing

(***************************************************************************)
(* withGeminiRetry.  Delays are whole milliseconds; Math.random() is a     *)
(* number of hundredths in [0, 100).  An error message is a sequence of    *)
(* phrases.                                                                *)
(***************************************************************************)
DEFAULT_RETRY_CONFIG ==
    [maxAttempts |-> 4, initialDelayMs |-> 1000, multiplier |-> 2, maxDelayMs |-> 20000,
     jitterRatio |-> <<2, 10>>]

\* What a rejected operation may throw: a value that is no object, and
\* objects with or without a numeric status, a response status and messages
\* (err.message, response.statusText, response.data.error.message).
GeminiError(object, status, responseStatus, messages) ==
    [object |-> object, status |-> status, responseStatus |-> responseStatus,
     messages |-> messages]

\* The /i flag: case folding of one phrase
FoldCase(phrase) ==
    CASE phrase = "Quota" -> "quota"
      [] phrase = "RATE LIMIT" -> "rate limit"
      [] phrase = "Resource Exhausted" -> "resource exhausted"
      [] OTHER -> phrase

\* /429|resource exhausted|rate limit|quota/i.test(msg)
MentionsRateLimit(msg) ==
    \E i \in 1..Len(msg) :
        FoldCase(msg[i]) \in {"429", "resource exhausted", "rate limit", "quota"}

isRateLimitError(error) ==
    IF ~error.object THEN FALSE
    ELSE LET status == IF error.status # Absent THEN error.status ELSE error.responseStatus
         IN  \/ status = Given(429)
             \/ \E k \in 1..Len(error.messages) : MentionsRateLimit(error.messages[k])

\* The wait before the next attempt, jitter left unclamped (not what the code does).
waitTimeUnclamped(config, delay, random) ==
    delay + (delay * config.jitterRatio[1] * (random - 50) * 2) \div (config.jitterRatio[2] * 100)

\* jitter = delay * jitterRatio * (Math.random() - 0.5) * 2;
\* waitTime = Math.min(maxDelayMs, Math.max(initialDelayMs, delay + jitter))
waitTime(config, delay, random) ==
    LET jitter == (delay * config.jitterRatio[1] * (random - 50) * 2)
                      \div (config.jitterRatio[2] * 100)
    IN  Min(config.maxDelayMs, Max(config.initialDelayMs, delay + jitter))

Busy == GeminiError(TRUE, Absent, Absent,
                    <<<<"The AI service is temporarily busy. Please wait a few moments and try again.">>>>)

(***************************************************************************)
(* SpecRetry: one withGeminiRetry call with the default configuration, an  *)
(* operation that settles every time it is invoked, and timers that fire   *)
(***************************************************************************)
Randoms == {0, 25, 50, 75, 99}

Errors ==
    { GeminiError(FALSE, Absent, Absent, <<>>),
      GeminiError(TRUE, Given(429), Absent, <<>>),
      GeminiError(TRUE, Given(500), Given(429), <<<<"server error">>>>),
      GeminiError(TRUE, Absent, Given(429), <<>>),
      GeminiError(TRUE, Absent, Given(503), <<<<"Service Unavailable">>>>),
      GeminiError(TRUE, Absent, Absent, <<<<"request failed">>, <<"Quota", "exceeded">>>>),
      GeminiError(TRUE, Given(400), Absent, <<<<"bad request">>>>) }

InitRetry ==
    /\ NoTimeline
    /\ Untouched

\* withGeminiRetry(operation): the loop variables are set and the operation
\* is invoked for the first time.
Call ==
    /\ retry.phase = "idle"
    /\ retry' = [retry EXCEPT !.phase = "calling", !.attempt = 0,
                              !.delay = DEFAULT_RETRY_CONFIG.initialDelayMs, !.calls = 1]
    /\ UNCHANGED <<tlVars, query, repairVars, keyVars, registrations, speedCall, legacyCall>>

\* await operation() resolves: the result is returned.
Resolve ==
    /\ retry.phase = "calling"
    /\ retry' = [retry EXCEPT !.phase = "returned"]
    /\ UNCHANGED <<tlVars, query, repairVars, keyVars, registrations, speedCall, legacyCall>>

\* await operation() rejects with `error`: the catch block up to the throw or
\* to await wait(waitTime).
Reject(error, random) ==
    LET config == DEFAULT_RETRY_CONFIG
        attempt == retry.attempt + 1
    IN  /\ retry.phase = "calling"
        /\ retry' =
             IF ~isRateLimitError(error) \/ attempt >= config.maxAttempts
             THEN [retry EXCEPT !.phase = "thrown", !.attempt = attempt, !.error = Given(error),
                                !.thrown = IF isRateLimitError(error)
                                           THEN Given(Busy) ELSE Given(error)]
             ELSE [retry EXCEPT !.phase = "waiting", !.attempt = attempt, !.error = Given(error),
                                !.waits = Append(@, waitTime(config, retry.delay, random))]
        /\ UNCHANGED <<tlVars, query, repairVars, keyVars, registrations, speedCall, legacyCall>>

\* The timer of wait(waitTime) fires: the delay grows and the loop invokes
\* the operation again.
WaitElapsed ==
    /\ retry.phase = "waiting"
    /\ retry' = [retry EXCEPT !.phase = "calling",
                              !.delay = Min(DEFAULT_RETRY_CONFIG.maxDelayMs,
                                            retry.delay * DEFAULT_RETRY_CONFIG.multiplier),
                              !.calls = @ + 1]
    /\ UNCHANGED <<tlVars, query, repairVars, keyVars, registrations, speedCall, legacyCall>>

NextRetry ==
    \/ Call
    \/ Resolve
    \/ \E error \in Errors, random \in Randoms : Reject(error, random)
    \/ WaitElapsed

SpecRetry == InitRetry /\ [][NextRetry]_vars /\ WF_vars(NextRetry)

(***************************************************************************)
(* Claims about withGeminiRetry (checked under SpecRetry)                  *)
(***************************************************************************)
Settled == retry.phase \in {"returned", "thrown"}

\* C30: withGeminiRetry invokes the operation at most maxAttempts times and
\* always terminates.  It returns as soon as an invocation succeeds, rethrows
\* an error that is no rate-limit error right after the attempt that failed
\* with it, goes on to wait and retry only after a rate-limit error, throws
\* the 'temporarily busy' error once maxAttempts invocations have failed with
\* rate-limit errors, and every wait between two attempts is within
\* [initialDelayMs, maxDelayMs].
RetryIsBoundedAndSettles ==
    /\ [](retry.calls <= DEFAULT_RETRY_CONFIG.maxAttempts)
    /\ [](\A i \in 1..Len(retry.waits) :
            /\ retry.waits[i] >= DEFAULT_RETRY_CONFIG.initialDelayMs
            /\ retry.waits[i] <= DEFAULT_RETRY_CONFIG.maxDelayMs)
    /\ [][Resolve => retry'.phase = "returned"]_vars
    /\ [](retry.phase = "waiting" =>
            /\ isRateLimitError(retry.error[1])
            /\ retry.attempt < DEFAULT_RETRY_CONFIG.maxAttempts)
    /\ [](retry.phase = "thrown" =>
            /\ retry.calls = retry.attempt
            /\ Len(retry.waits) = retry.attempt - 1
            /\ IF isRateLimitError(retry.error[1])
               THEN /\ retry.thrown = Given(Busy)
                    /\ retry.attempt = DEFAULT_RETRY_CONFIG.maxAttempts
               ELSE retry.thrown = retry.error)
    /\ [][Settled => UNCHANGED retry]_vars
    /\ (retry.phase = "calling") ~> Settled

\* C30 witness: four invocations failed with rate-limit errors, three waits
\* lie between them, the last one longer than its 4000 ms delay, and the
\* 'temporarily busy' error was thrown.
RetryIsBoundedAndSettlesWitness ==
    /\ retry.phase = "thrown"
    /\ retry.calls = 4
    /\ Len(retry.waits) = 3
    /\ retry.waits[1] = 1000
    /\ retry.waits[3] > 4000
    /\ retry.thrown = Given(Busy)
    /\ retry.error[1].status = Absent
====
